---------------------------- MODULE Spec2Model ----------------------------
(***************************************************************************)
(* Notation compiler, locator resolver, record emitter and repairer of the *)
(* section tools (scripts/generate_sections.py, fix_section_errors.py).    *)
(*                                                                         *)
(* Text is modelled as a sequence of chunks.  A notation is a sequence of  *)
(* single characters; names (ship types, slots, entities, locators,        *)
(* modifiers, technologies) are sequences of word chunks in which the      *)
(* underscore that the code splits on is always a chunk of its own.        *)
(***************************************************************************)
EXTENDS Integers, Sequences, FiniteSets, TLC

VARIABLES
    vanilla_data,   \* the loaded reference hierarchy (vanilla_ship_data.json)
    argv,           \* the command line of the run: ship_type, slot, notation
    design,         \* the ParsedDesign of the last parse_notation call
    resolved,       \* (entity, locator_map) of the last find_entity_for_design call
    content,        \* the section file: a sequence of section records
    changes,        \* the change list returned by the last repair run
    issues,         \* the issues of the last validation, the entries of the last audit
    loc_lines,      \* the localisation file: a sequence of lines
    pc              \* position of the run

vars == <<vanilla_data, argv, design, resolved, content, changes, issues, loc_lines, pc>>

(***************************************************************************)
(* Bounds of the model.                                                    *)
(***************************************************************************)
MaxTokens == 3          \* tokens per notation drawn for parse_notation

(***************************************************************************)
(* Text helpers.                                                           *)
(***************************************************************************)
None == <<"None">>

\* int(s) of a string of decimal digits
RECURSIVE ParseInt(_)
ParseInt(s) ==
    IF s = <<>> THEN 0
    ELSE LET c == s[Len(s)]
         IN  10 * ParseInt(SubSeq(s, 1, Len(s) - 1))
                 + (CASE c = "0" -> 0 [] c = "1" -> 1 [] c = "2" -> 2 [] c = "3" -> 3
                      [] c = "4" -> 4 [] c = "5" -> 5 [] c = "6" -> 6 [] c = "7" -> 7
                      [] c = "8" -> 8 [] c = "9" -> 9)

\* s[i:] starts with p (i is 1-based)
StartsAt(s, i, p) ==
    /\ i + Len(p) - 1 <= Len(s)
    /\ \A k \in 1..Len(p) : s[i + k - 1] = p[k]

\* p in s
Contains(s, p) == \E i \in 1..(Len(s) + 1) : StartsAt(s, i, p)

\* number of digits of s from position i on (the greedy \d+)
RECURSIVE DigitRun(_, _)
DigitRun(s, i) ==
    IF i <= Len(s) /\ s[i] \in {"0", "1", "2", "3", "4", "5", "6", "7", "8", "9"}
    THEN 1 + DigitRun(s, i + 1) ELSE 0

\* str.replace(old, new): every non-overlapping occurrence, left to right
RECURSIVE Replace(_, _, _)
Replace(s, old, new) ==
    IF old = <<>> \/ ~Contains(s, old) THEN s
    ELSE LET i == CHOOSE j \in 1..Len(s) :
                     /\ StartsAt(s, j, old)
                     /\ \A k \in 1..(j - 1) : ~StartsAt(s, k, old)
         IN  SubSeq(s, 1, i - 1) \o new
                 \o Replace(SubSeq(s, i + Len(old), Len(s)), old, new)

\* re.search(code + r"(\d+)", s): 0 when there is no match, else the index of
\* the leftmost one
SearchCount(s, code) ==
    LET hits == {i \in 1..Len(s) :
                    StartsAt(s, i, code) /\ DigitRun(s, i + Len(code)) > 0}
    IN  IF hits = {} THEN 0
        ELSE CHOOSE i \in hits : \A j \in hits : i <= j

\* int(group(1)) of the match at i
MatchCount(s, i, code) ==
    ParseInt(SubSeq(s, i + Len(code), i + Len(code) + DigitRun(s, i + Len(code)) - 1))

(***************************************************************************)
(* Cost tables of generate_sections.py.                                    *)
(***************************************************************************)
\* the alternation (PD|HB|T|X|L|M|S|G|W), in its order
WeaponCodes ==
    << <<"P", "D">>, <<"H", "B">>, <<"T">>, <<"X">>, <<"L">>, <<"M">>,
       <<"S">>, <<"G">>, <<"W">> >>

WeaponKinds == {"PD", "HB", "T", "X", "L", "M", "S", "G", "W"}

KindOf(code) == IF Len(code) = 2 THEN IF code[1] = "P" THEN "PD" ELSE "HB" ELSE code[1]

\* WEAPON_COSTS with the hangar bay priced as a medium weapon
WEAPON_COSTS_HangarAsMedium(w) ==
    CASE w = "S" -> 1 [] w = "PD" -> 1 [] w = "M" -> 2 [] w = "G" -> 2
      [] w = "L" -> 4 [] w = "HB" -> 2 [] w = "X" -> 8 [] w = "T" -> 16
      [] w = "W" -> 0 [] OTHER -> 0

WEAPON_COSTS(w) ==
    CASE w = "S" -> 1 [] w = "PD" -> 1 [] w = "M" -> 2 [] w = "G" -> 2
      [] w = "L" -> 4 [] w = "HB" -> 4 [] w = "X" -> 8 [] w = "T" -> 16
      [] w = "W" -> 0 [] OTHER -> 0

UTILITY_COSTS(u) == CASE u = "UL" -> 4 [] u = "US" -> 1

\* SHIP_AUX_COST.get(ship_type, 4)
SHIP_AUX_COST(ship_type) ==
    CASE ship_type = <<"corvette">> -> 1
      [] ship_type = <<"frigate">> -> 1
      [] ship_type = <<"destroyer">> -> 2
      [] ship_type = <<"cruiser">> -> 4
      [] ship_type = <<"battleship">> -> 8
      [] ship_type = <<"titan">> -> 16
      [] ship_type = <<"juggernaut">> -> 16
      [] ship_type = <<"colossus">> -> 16
      [] ship_type = <<"star", "_", "eater">> -> 32
      [] OTHER -> 4

TIER_THRESHOLDS ==
    << <<"common", 0, 24>>, <<"advanced", 25, 32>>, <<"pro", 33, 40>>,
       <<"ultra", 41, 52>>, <<"ultimate", 53, 999>> >>

\* the tier loop of parse_notation: the first bucket holding the total, the
\* initial "common" when no bucket does
TierOf(total_points) ==
    LET hits == {i \in 1..Len(TIER_THRESHOLDS) :
                    /\ TIER_THRESHOLDS[i][2] <= total_points
                    /\ total_points <= TIER_THRESHOLDS[i][3]}
    IN  IF hits = {} THEN "common"
        ELSE TIER_THRESHOLDS[CHOOSE i \in hits : \A j \in hits : i <= j][1]

(***************************************************************************)
(* parse_notation.                                                         *)
(***************************************************************************)
\* one utility step: search code<n>, take the count, remove every occurrence
\* of the matched text from the working string
UtilityCount(work, code) ==
    IF SearchCount(work, code) = 0 THEN 0
    ELSE MatchCount(work, SearchCount(work, code), code)

UtilityRemove(work, code) ==
    IF SearchCount(work, code) = 0 THEN work
    ELSE LET i == SearchCount(work, code)
             group0 == SubSeq(work, i, i + Len(code) + DigitRun(work, i + Len(code)) - 1)
         IN  Replace(work, group0, <<>>)

\* the weapon code matching at position i with a digit after it (0: none)
CodeAt(work, i) ==
    LET hits == {c \in 1..Len(WeaponCodes) :
                    /\ StartsAt(work, i, WeaponCodes[c])
                    /\ DigitRun(work, i + Len(WeaponCodes[c])) > 0}
    IN  IF hits = {} THEN 0 ELSE CHOOSE c \in hits : \A d \in hits : c <= d

\* re.finditer over the working string from position i: the matches in order
RECURSIVE WeaponMatches(_, _)
WeaponMatches(work, i) ==
    IF i > Len(work) THEN <<>>
    ELSE IF CodeAt(work, i) = 0 THEN WeaponMatches(work, i + 1)
    ELSE LET code == WeaponCodes[CodeAt(work, i)]
         IN  << <<KindOf(code), MatchCount(work, i, code)>> >>
                 \o WeaponMatches(work, i + Len(code) + DigitRun(work, i + Len(code)))

\* weapons[weapon_type] = int(count): a later match of a kind overwrites
WeaponsDict(matches) ==
    [k \in {matches[i][1] : i \in 1..Len(matches)} |->
        matches[CHOOSE i \in 1..Len(matches) :
                    /\ matches[i][1] = k
                    /\ \A j \in (i + 1)..Len(matches) : matches[j][1] # k][2]]

\* dict.get(key, 0)
Get(d, k) == IF k \in DOMAIN d THEN d[k] ELSE 0

RECURSIVE SumOver(_, _)
SumOver(d, keys) ==
    IF keys = {} THEN 0
    ELSE LET k == CHOOSE x \in keys : TRUE
         IN  WEAPON_COSTS(k) * d[k] + SumOver(d, keys \ {k})

parse_notation(notation, ship_type) ==
    LET large_utility == UtilityCount(notation, <<"U", "L">>)
        work1         == UtilityRemove(notation, <<"U", "L">>)
        small_utility == UtilityCount(work1, <<"U", "S">>)
        work2         == UtilityRemove(work1, <<"U", "S">>)
        aux           == UtilityCount(work2, <<"A", "U", "X">>)
        work3         == UtilityRemove(work2, <<"A", "U", "X">>)
        weapons       == WeaponsDict(WeaponMatches(work3, 1))
        weapon_pts    == SumOver(weapons, DOMAIN weapons)
        utility_pts   == large_utility * UTILITY_COSTS("UL")
                            + small_utility * UTILITY_COSTS("US")
        aux_pts       == aux * SHIP_AUX_COST(ship_type)
        total_points  == weapon_pts + utility_pts + aux_pts
    IN  [notation |-> notation, weapons |-> weapons,
         large_utility |-> large_utility, small_utility |-> small_utility,
         aux |-> aux, total_points |-> total_points, tier |-> TierOf(total_points)]

NoDesign == [notation |-> <<>>, weapons |-> <<>>, large_utility |-> 0,
             small_utility |-> 0, aux |-> 0, total_points |-> 0, tier |-> "none"]

(***************************************************************************)
(* Inputs: notations are concatenations of at most MaxTokens tokens.       *)
(***************************************************************************)
RECURSIVE Concat(_)
Concat(ts) == IF ts = <<>> THEN <<>> ELSE Head(ts) \o Concat(Tail(ts))

NotationsOf(n) ==
    LET Tokens ==
            { <<"T", "1">>, <<"T", "2">>, <<"X", "1">>, <<"L", "2">>, <<"M", "1">>,
              <<"S", "3">>, <<"G", "1">>, <<"P", "D", "2">>, <<"H", "B", "1">>,
              <<"W", "1">>, <<"U", "L", "1">>, <<"U", "L", "2">>, <<"U", "S", "1">>,
              <<"U", "S", "2">>, <<"A", "U", "X", "1">>, <<"A", "U", "X", "2">>,
              <<"9">>, <<"t", "1">> }
    IN  UNION {{Concat(ts) : ts \in [1..k -> Tokens]} : k \in 0..n}

NoResolved == [entity |-> None, locator_map |-> <<>>]

(***************************************************************************)
(* calc <notation> [ship_type]: cmd_calc.                                  *)
(***************************************************************************)
InitCalc ==
    /\ vanilla_data = [ship_types |-> <<>>]
    /\ argv \in [ship_type : {<<"battleship">>, <<"corvette">>,
                               <<"crisis", "_", "corvette">>},
                  slot : {<<>>},
                  notation : NotationsOf(MaxTokens)]
    /\ design = NoDesign
    /\ resolved = NoResolved
    /\ content = <<>>
    /\ changes = <<>>
    /\ issues = <<>>
    /\ loc_lines = <<>>
    /\ pc = "calc"

cmd_calc ==
    /\ pc = "calc"
    /\ design' = parse_notation(argv.notation, argv.ship_type)
    /\ pc' = "done"
    /\ UNCHANGED <<vanilla_data, argv, resolved, content, changes, issues, loc_lines>>

NextCalc == cmd_calc

SpecCalc == InitCalc /\ [][NextCalc]_vars

(***************************************************************************)
(* The reference hierarchy: ship type -> slot -> entity -> locators, each  *)
(* level an ordered mapping (a sequence of named entries), with the base   *)
(* points, modifier and technology side tables of vanilla_ship_data.json.  *)
(***************************************************************************)
W1(a) == <<a>>
W2(a, b) == <<a, "_", b>>
W3(a, b, c) == <<a, "_", b, "_", c>>
W4(a, b, c, d) == <<a, "_", b, "_", c, "_", d>>

Entity(name, locators) == [name |-> name, locators |-> locators]
Slot(name, entities) == [name |-> name, entities |-> entities]
ShipType(name, slots) == [name |-> name, slots |-> slots]

\* index of the entry called name in an ordered mapping, 0 when absent
IndexOf(entries, name) ==
    IF \E i \in 1..Len(entries) : entries[i].name = name
    THEN CHOOSE i \in 1..Len(entries) : entries[i].name = name
    ELSE 0

Names(entries) == [i \in 1..Len(entries) |-> entries[i].name]

InSeq(x, seq) == \E i \in 1..Len(seq) : seq[i] = x

\* vanilla_data["ship_types"].get(ship_type, {}).get("slots", {})
SlotsOf(data, ship_type) ==
    IF IndexOf(data.ship_types, ship_type) = 0 THEN <<>>
    ELSE data.ship_types[IndexOf(data.ship_types, ship_type)].slots

\* ....get(slot, {}).get("entities", {})
EntitiesOf(data, ship_type, slot) ==
    IF IndexOf(SlotsOf(data, ship_type), slot) = 0 THEN <<>>
    ELSE SlotsOf(data, ship_type)[IndexOf(SlotsOf(data, ship_type), slot)].entities

LargeGun(n) == W3("large", "gun", n)
MediumGun(n) == W3("medium", "gun", n)
SmallGun(n) == W3("small", "gun", n)
XlGun(n) == W3("xl", "gun", n)

BattleshipBowGuns == Entity(W4("battleship", "bow", "L2S1", "entity"),
                            <<LargeGun("01"), LargeGun("02"), SmallGun("01")>>)
BattleshipBowMixed == Entity(W4("battleship", "bow", "X1M2S2", "entity"),
                             <<XlGun("01"), MediumGun("01"), MediumGun("02"),
                               SmallGun("01"), SmallGun("02")>>)
BattleshipMidBare == Entity(W4("battleship", "mid", "bare", "entity"), <<>>)
BattleshipSternGuns == Entity(W4("battleship", "stern", "M1", "entity"),
                              <<MediumGun("01")>>)
CorvetteMidGuns == Entity(W4("corvette", "mid", "S2", "entity"),
                          <<SmallGun("01"), SmallGun("02")>>)

\* a hierarchy as extract_vanilla_data.py builds it: colossus, whose only
\* section carries a zero-cost planet killer, has no base points
VanillaData ==
    [ship_types |->
        << ShipType(W1("battleship"),
               << Slot(W1("bow"), <<BattleshipBowGuns, BattleshipBowMixed>>),
                  Slot(W1("mid"), <<BattleshipMidBare>>),
                  Slot(W1("stern"), <<BattleshipSternGuns>>) >>),
           ShipType(W1("corvette"),
               << Slot(W1("mid"),
                       <<CorvetteMidGuns,
                         Entity(W4("corvette", "mid", "M1", "entity"),
                                <<MediumGun("01"), W1("root")>>)>>) >>),
           ShipType(W2("crisis", "corvette"),
               << Slot(W1("mid"),
                       <<Entity(W4("crisis", "corvette", "mid", "entity"),
                                <<W2("weapon", "01")>>)>>) >>),
           ShipType(W1("colossus"),
               << Slot(W1("mid"),
                       <<Entity(W3("colossus", "mid", "entity"),
                                <<W4("planet", "killer", "gun", "01")>>)>>) >>) >>,
     ship_base_points |->
        << <<W1("battleship"), 24>>, <<W1("corvette"), 4>>,
           <<W2("crisis", "corvette"), 6>> >>,
     \* invalid_to_valid_map of the modifiers, in the order of the mapping
     modifiers |->
        << <<W4("ship", "weapon", "damage", "mult"), W3("ship", "weapon", "damage")>>,
           <<W4("fleet", "command", "limit", "add"), None>>,
           <<W3("ship", "repair", "mult"), W4("ship", "repair", "hull", "mult")>>,
           <<W3("sensor", "range", "mult"), W4("ship", "sensor", "range", "add")>> >>,
     \* invalid_to_valid_map of the technologies
     technologies |->
        << <<W3("tech", "railguns", "1"), W4("tech", "mass", "drivers", "2")>>,
           <<W3("tech", "railguns", "2"), W4("tech", "mass", "drivers", "3")>>,
           <<W3("tech", "railguns", "3"), W4("tech", "mass", "drivers", "4")>> >>]

(***************************************************************************)
(* find_entity_for_design.                                                 *)
(***************************************************************************)
Categories == {"large_gun", "medium_gun", "small_gun", "xl_gun", "strike_craft",
               "planet_killer"}

\* weapon_to_loc / weapon_to_loc_type
weapon_to_loc(w) ==
    CASE w = "L" -> "large_gun" [] w = "M" -> "medium_gun" [] w = "S" -> "small_gun"
      [] w = "PD" -> "small_gun" [] w = "G" -> "medium_gun" [] w = "X" -> "xl_gun"
      [] w = "T" -> "xl_gun" [] w = "HB" -> "strike_craft" [] w = "W" -> "planet_killer"

\* the five names only, without the two substring tests
IsUniversal_NamesOnly(loc) ==
    loc \in {W2("turret", "01"), W2("weapon", "01"), W2("weapon", "02"),
             W1("root"), W1("core")}

\* loc in ("turret_01", "weapon_01", "weapon_02", "root", "core")
\*   or "turret_" in loc or "planet_killer" in loc
IsUniversal(loc) ==
    \/ loc \in {W2("turret", "01"), W2("weapon", "01"), W2("weapon", "02"),
                W1("root"), W1("core")}
    \/ Contains(loc, <<"turret", "_">>)
    \/ Contains(loc, W2("planet", "killer"))

\* [l for l in locators if cond(l)]
RECURSIVE SelectSeq2(_, _)
SelectSeq2(seq, keep) ==
    IF seq = <<>> THEN <<>>
    ELSE (IF Head(seq) \in keep THEN <<Head(seq)>> ELSE <<>>) \o SelectSeq2(Tail(seq), keep)

\* the locators of one category
InCategory(loc, cat) ==
    \/ Contains(loc, CASE cat = "large_gun" -> W2("large", "gun")
                       [] cat = "medium_gun" -> W2("medium", "gun")
                       [] cat = "small_gun" -> W2("small", "gun")
                       [] cat = "xl_gun" -> W2("xl", "gun")
                       [] cat = "strike_craft" -> W2("strike", "craft")
                       [] cat = "planet_killer" -> W2("planet", "killer"))
    \/ cat = "planet_killer" /\ loc \in {W1("core"), W1("root")}

CategoryLocators(locators, cat) ==
    SelectSeq2(locators, {locators[i] : i \in {j \in 1..Len(locators) : InCategory(locators[j], cat)}})

\* the score with the kinds of one category counted together: a kind is fully
\* covered only when the category has a locator for every unit of the category
RECURSIVE ScoreOver_PerCategory(_, _, _)
ScoreOver_PerCategory(weapons, kinds, locators) ==
    IF kinds = {} THEN 0
    ELSE LET w == CHOOSE x \in kinds : TRUE
             available == Len(CategoryLocators(locators, weapon_to_loc(w)))
             others == {v \in DOMAIN weapons \ {w} : weapon_to_loc(v) = weapon_to_loc(w)}
             wanted == weapons[w]
                       + (IF others = {} THEN 0 ELSE weapons[CHOOSE v \in others : TRUE])
         IN  (IF available >= wanted THEN weapons[w] * 10
              ELSE IF available > 0 THEN available ELSE 0)
             + ScoreOver_PerCategory(weapons, kinds \ {w}, locators)

RECURSIVE ScoreOver(_, _, _)
ScoreOver(weapons, kinds, locators) ==
    IF kinds = {} THEN 0
    ELSE LET w == CHOOSE x \in kinds : TRUE
             available == Len(CategoryLocators(locators, weapon_to_loc(w)))
         IN  (IF available >= weapons[w] THEN weapons[w] * 10
              ELSE IF available > 0 THEN available ELSE 0)
             + ScoreOver(weapons, kinds \ {w}, locators)

\* only an entity with at least the requested count of every kind supports
CanSupport_Exact(weapons, locators) ==
    \A w \in DOMAIN weapons :
        Len(CategoryLocators(locators, weapon_to_loc(w))) >= weapons[w]

CanSupport(weapons, locators) ==
    \A w \in DOMAIN weapons :
        LET available == Len(CategoryLocators(locators, weapon_to_loc(w)))
        IN  available >= weapons[w] \/ available > 0

\* the fallback locator map without its entries for the categories
FallbackLocators_NoCategories(locators) ==
    [c \in {"all"} |-> locators]

\* the fallback locator map of one entity
FallbackLocators(locators) ==
    LET fallback_loc == IF locators # <<>> THEN locators[1] ELSE W1("root")
    IN  [c \in Categories \cup {"all"} |->
            IF c = "all" THEN locators
            ELSE IF c = "small_gun" THEN (IF locators # <<>> THEN locators ELSE <<fallback_loc>>)
            ELSE <<fallback_loc>>]

\* the returns after the loop, without the aggressive-mode fallback
LoopResult_NoFallback(acc) ==
    [entity |-> acc.best_entity, locator_map |-> acc.best_locators]

\* the returns after the loop: the fallback entity when no entity was kept
LoopResult(acc) ==
    IF acc.best_entity = None /\ acc.fallback_entity # None
    THEN [entity |-> acc.fallback_entity, locator_map |-> acc.fallback_locators]
    ELSE [entity |-> acc.best_entity, locator_map |-> acc.best_locators]

\* the result of the loop when it leaves entity i on, acc the loop variables
RECURSIVE FindEntityLoop(_, _, _, _)
FindEntityLoop(entities, weapons, i, acc) ==
    IF i > Len(entities) THEN LoopResult(acc)
    ELSE
    LET locators == entities[i].locators
        newFallback ==
            \/ acc.fallback_entity = None
            \/ Len(locators) > Len(acc.fallback_locators["all"])
        acc1 == IF newFallback
                THEN [acc EXCEPT !.fallback_entity = entities[i].name,
                                 !.fallback_locators = FallbackLocators(locators)]
                ELSE acc
        universal == {j \in 1..Len(locators) : IsUniversal(locators[j])}
        score == ScoreOver(weapons, DOMAIN weapons, locators)
    IN  IF universal # {}
        THEN [entity |-> entities[i].name,
              locator_map |->
                  [c \in Categories |->
                      <<locators[CHOOSE j \in universal : \A k \in universal : j <= k]>>]]
        ELSE IF CanSupport(weapons, locators) /\ score > acc1.best_score
        THEN FindEntityLoop(entities, weapons, i + 1,
                 [acc1 EXCEPT !.best_score = score,
                              !.best_entity = entities[i].name,
                              !.best_locators =
                                  [c \in Categories |-> CategoryLocators(locators, c)]])
        ELSE FindEntityLoop(entities, weapons, i + 1, acc1)

find_entity_for_design(data, ship_type, slot, weapons) ==
    IF EntitiesOf(data, ship_type, slot) = <<>>
    THEN [entity |-> None, locator_map |-> <<>>]
    ELSE FindEntityLoop(EntitiesOf(data, ship_type, slot), weapons, 1,
             [best_entity |-> None, best_score |-> -1, best_locators |-> <<>>,
              fallback_entity |-> None,
              fallback_locators |-> [c \in {"all"} |-> <<>>]])

(***************************************************************************)
(* generate_section_template: the record as the fields its lines carry.    *)
(***************************************************************************)
\* str.upper() / str.lower() on the chunks that occur
CasePairs ==
    { <<"battleship", "BATTLESHIP">>, <<"corvette", "CORVETTE">>,
      <<"crisis", "CRISIS">>, <<"colossus", "COLOSSUS">>, <<"titan", "TITAN">>,
      <<"destroyer", "DESTROYER">>,
      <<"bow", "BOW">>, <<"mid", "MID">>, <<"stern", "STERN">>, <<"core", "CORE">>,
      <<"ship", "SHIP">>,
      <<"common", "COMMON">>, <<"advanced", "ADVANCED">>, <<"pro", "PRO">>,
      <<"ultra", "ULTRA">>, <<"ultimate", "ULTIMATE">>,
      <<"t", "T">>, <<"x", "X">>, <<"l", "L">>, <<"m", "M">>, <<"s", "S">>,
      <<"g", "G">>, <<"w", "W">>, <<"p", "P">>, <<"d", "D">>, <<"h", "H">>,
      <<"b", "B">>, <<"u", "U">>, <<"a", "A">> }

UpperChunk(c) ==
    IF \E q \in CasePairs : q[1] = c THEN (CHOOSE q \in CasePairs : q[1] = c)[2] ELSE c

Upper(s) == [i \in 1..Len(s) |-> UpperChunk(s[i])]
Lower(s) ==
    [i \in 1..Len(s) |->
        IF \E q \in CasePairs : q[2] = s[i]
        THEN (CHOOSE q \in CasePairs : q[2] = s[i])[1] ELSE s[i]]

\* f"{n:02d}"
Fmt02(n) == IF n < 10 THEN "0" \o ToString(n) ELSE ToString(n)

TIER_COST_MULT_x100(tier) ==
    CASE tier = "common" -> 100 [] tier = "advanced" -> 110 [] tier = "pro" -> 125
      [] tier = "ultra" -> 140 [] tier = "ultimate" -> 160

TEMPLATES(w) ==
    CASE w = "S" -> W2("small", "turret")
      [] w = "PD" -> W3("point", "defence", "turret")
      [] w = "M" -> W2("medium", "turret")
      [] w = "G" -> W3("medium", "missile", "turret")
      [] w = "L" -> W2("large", "turret")
      [] w = "HB" -> W3("large", "strike", "craft")
      [] w = "X" -> W4("invisible", "extra", "large", "fixed")
      [] w = "T" -> W3("invisible", "titanic", "fixed")
      [] w = "W" -> W4("invisible", "planet", "killer", "fixed")

LOCATOR_PREFIX(w) ==
    CASE w = "S" -> W2("small", "gun") [] w = "PD" -> W2("small", "gun")
      [] w = "M" -> W2("medium", "gun") [] w = "G" -> W2("medium", "gun")
      [] w = "L" -> W2("large", "gun")
      [] w = "HB" -> W3("strike", "craft", "locator")
      [] w = "X" -> W2("xl", "gun") [] w = "T" -> W2("xl", "gun")
      [] w = "W" -> W1("core")

weapon_to_slot_name(w) ==
    CASE w = "L" -> W2("LARGE", "GUN") [] w = "M" -> W2("MEDIUM", "GUN")
      [] w = "S" -> W2("SMALL", "GUN") [] w = "PD" -> W1("PD")
      [] w = "G" -> W1("TORPEDO") [] w = "X" -> W2("EXTRA", "LARGE")
      [] w = "T" -> W1("TITANIC") [] w = "HB" -> W2("STRIKE", "CRAFT")
      [] w = "W" -> W3("PLANET", "KILLER", "GUN")

\* the loop taking the small kinds before the large ones
WeaponOrder_SmallFirst == <<"PD", "S", "G", "M", "L", "HB", "X", "T", "W">>

\* the order of the component slot loop
WeaponOrder == <<"W", "T", "X", "HB", "L", "M", "G", "S", "PD">>

\* locator_map.get(loc_type, [])
LocatorsFor(locator_map, loc_type) ==
    IF loc_type \in DOMAIN locator_map THEN locator_map[loc_type] ELSE <<>>

\* the locator of unit i, the last locator repeated instead of cycling
UnitLocator_Clamped(available_locs, w, i) ==
    IF available_locs # <<>>
    THEN available_locs[IF i < Len(available_locs) THEN i + 1 ELSE Len(available_locs)]
    ELSE LOCATOR_PREFIX(w) \o <<"_", Fmt02(i + 1)>>

\* the locator of unit i (0-based) of a weapon kind
UnitLocator(available_locs, w, i) ==
    IF available_locs # <<>>
    THEN available_locs[(i % Len(available_locs)) + 1]
    ELSE LOCATOR_PREFIX(w) \o <<"_", Fmt02(i + 1)>>

\* the component_slot blocks of one weapon kind
ComponentSlotsOf(w, count, locator_map) ==
    [u \in 1..count |->
        [name |-> weapon_to_slot_name(w) \o <<"_", Fmt02(u)>>,
         template |-> TEMPLATES(w),
         rotation |-> IF w = "HB" THEN (IF u % 2 = 1 THEN 90 ELSE -90) ELSE 0,
         locatorname |-> UnitLocator(LocatorsFor(locator_map, weapon_to_loc(w)), w, u - 1)]]

RECURSIVE ComponentSlots(_, _, _)
ComponentSlots(k, weapons, locator_map) ==
    IF k > Len(WeaponOrder) THEN <<>>
    ELSE ComponentSlotsOf(WeaponOrder[k], Get(weapons, WeaponOrder[k]), locator_map)
             \o ComponentSlots(k + 1, weapons, locator_map)

UtilityLines(d) ==
    (IF d.small_utility > 0
     THEN <<[name |-> "small_utility_slots", count |-> d.small_utility]>> ELSE <<>>)
    \o (IF d.large_utility > 0
        THEN <<[name |-> "large_utility_slots", count |-> d.large_utility]>> ELSE <<>>)
    \o (IF d.aux > 0
        THEN <<[name |-> "aux_utility_slots", count |-> d.aux]>> ELSE <<>>)

AiTags(weapons) ==
    (IF Get(weapons, "HB") > 0 THEN <<"carrier">> ELSE <<>>)
    \o (IF Get(weapons, "T") > 0 \/ Get(weapons, "X") > 0 \/ Get(weapons, "L") > 0
        THEN <<"artillery">> ELSE <<>>)
    \o (IF Get(weapons, "M") > 0 \/ Get(weapons, "S") > 0 THEN <<"gunship">> ELSE <<>>)

Icon(slot) ==
    IF slot = W1("bow") THEN "GFX_ship_part_core_bow"
    ELSE IF slot = W1("stern") THEN "GFX_ship_part_core_stern"
    ELSE "GFX_ship_part_core_mid"

generate_section_template(key, ship_type, slot, entity, d, locator_map) ==
    [key |-> key,
     ship_size |-> ship_type,
     fits_on_slot |-> slot,
     entity |-> entity,
     icon |-> Icon(slot),
     ai_tags |-> AiTags(d.weapons),
     component_slots |-> ComponentSlots(1, d.weapons, locator_map),
     utility_slots |-> UtilityLines(d),
     alloys |-> (80 * TIER_COST_MULT_x100(d.tier)) \div 100,
     modifiers |-> <<>>,
     prerequisites |-> <<>>]

\* key = f"PBSS_{ship_type.upper()}_{slot.upper()}_{design.tier.upper()}_{notation.upper()}"
SectionKey(ship_type, slot, tier, notation) ==
    <<"PBSS", "_">> \o Upper(ship_type) \o <<"_">> \o Upper(slot)
        \o <<"_", UpperChunk(tier), "_">> \o Upper(notation)

(***************************************************************************)
(* Reading a record back: extract_section_data and parse_section_key.      *)
(***************************************************************************)
\* chunks no \w matches
NonWord == {"-", " ", "\"", "."}

\* the leading run of chunks that satisfy keep: (\w+) and ([^"]+)
RECURSIVE Leading(_, _)
Leading(s, stop) ==
    IF s = <<>> \/ Head(s) \in stop THEN <<>> ELSE <<Head(s)>> \o Leading(Tail(s), stop)

\* the first of the values that is a match, <<>> when none is
FirstMatch(values) ==
    LET hits == {i \in 1..Len(values) : values[i] # <<>>}
    IN  IF hits = {} THEN <<>> ELSE values[CHOOSE i \in hits : \A j \in hits : i <= j]

\* extract_section_data on a block: the records that one run of the brace
\* counter takes as a section (one record, unless a brace is missing)
extract_section_data(block) ==
    [key |-> FirstMatch([i \in 1..Len(block) |-> Leading(block[i].key, {"\""})]),
     entity |-> FirstMatch([i \in 1..Len(block) |-> Leading(block[i].entity, {"\""})]),
     ship_size |-> FirstMatch([i \in 1..Len(block) |-> Leading(block[i].ship_size, NonWord)]),
     slot |-> FirstMatch([i \in 1..Len(block) |-> Leading(block[i].fits_on_slot, NonWord)]),
     locators |-> UNION {{Leading(block[i].component_slots[j].locatorname, {"\""}) :
                             j \in 1..Len(block[i].component_slots)} :
                         i \in 1..Len(block)} \ {<<>>}]

\* str.split("_")
RECURSIVE Split(_)
Split(s) ==
    IF ~InSeq("_", s) THEN <<s>>
    ELSE LET i == CHOOSE j \in 1..Len(s) : s[j] = "_" /\ \A k \in 1..(j - 1) : s[k] # "_"
         IN  <<SubSeq(s, 1, i - 1)>> \o Split(SubSeq(s, i + 1, Len(s)))

\* "_".join(parts)
RECURSIVE Join(_)
Join(parts) ==
    IF parts = <<>> THEN <<>>
    ELSE IF Len(parts) = 1 THEN parts[1]
    ELSE parts[1] \o <<"_">> \o Join(Tail(parts))

VALID_TIERS == {<<"COMMON">>, <<"ADVANCED">>, <<"PRO">>, <<"ULTRA">>, <<"ULTIMATE">>}

\* the index of the first part that is a tier, 0 when there is none
TierIndex(parts) ==
    LET hits == {i \in 1..Len(parts) : parts[i] \in VALID_TIERS}
    IN  IF hits = {} THEN 0 ELSE CHOOSE i \in hits : \A j \in hits : i <= j

\* ship_type in SHIP_BASE_POINTS, the table load_vanilla_data fills
InBasePoints(data, ship_type) ==
    \E i \in 1..Len(data.ship_base_points) : data.ship_base_points[i][1] = ship_type

\* the None of parse_section_key
Unparsed == [ok |-> FALSE, full_key |-> <<>>, ship_type |-> <<>>, slot |-> <<>>,
             tier |-> <<>>, notation |-> <<>>]

\* parts, tier_idx are 1-based here: parts[1] is "PBSS"
parse_section_key(data, full_key) ==
    LET parts == Split(full_key)
        tier_idx == TierIndex(parts)
    IN  IF Len(parts) < 5 \/ parts[1] # <<"PBSS">> THEN Unparsed
        ELSE IF tier_idx = 0 \/ tier_idx < 4 THEN Unparsed
        ELSE LET tier == parts[tier_idx]
                 notation == Join(SubSeq(parts, tier_idx + 1, Len(parts)))
                 slot == Lower(parts[tier_idx - 1])
                 ship_type == Lower(Join(SubSeq(parts, 2, tier_idx - 2)))
                 with_slot == Lower(Join(SubSeq(parts, 2, tier_idx - 1)))
             IN  IF InBasePoints(data, ship_type)
                 THEN [ok |-> TRUE, full_key |-> full_key, ship_type |-> ship_type,
                       slot |-> slot, tier |-> tier, notation |-> notation]
                 ELSE IF InBasePoints(data, with_slot)
                 THEN [ok |-> TRUE, full_key |-> full_key, ship_type |-> with_slot,
                       slot |-> slot, tier |-> tier, notation |-> notation]
                 ELSE Unparsed

(***************************************************************************)
(* design <ship_type> <slot> <notation>: cmd_design, one notation a run.   *)
(***************************************************************************)
MaxDesignTokens == 2    \* tokens per notation drawn for cmd_design

\* the (ship type, slot) pairs drawn: every pair of the hierarchy, a slot the
\* ship type lacks and a ship type the hierarchy lacks
DesignArgs ==
    LET DesignContexts ==
            { <<W1("battleship"), W1("bow")>>, <<W1("battleship"), W1("mid")>>,
              <<W1("battleship"), W1("stern")>>, <<W1("battleship"), W1("core")>>,
              <<W1("corvette"), W1("mid")>>, <<W2("crisis", "corvette"), W1("mid")>>,
              <<W1("colossus"), W1("mid")>>, <<W1("titan"), W1("mid")>> }
    IN  {[ship_type |-> c[1], slot |-> c[2], notation |-> n] :
            c \in DesignContexts, n \in NotationsOf(MaxDesignTokens)}

InitDesign ==
    /\ vanilla_data = VanillaData
    /\ argv \in DesignArgs
    /\ design = NoDesign
    /\ resolved = NoResolved
    /\ content = <<>>
    /\ changes = <<>>
    /\ issues = <<>>
    /\ loc_lines = <<>>
    /\ pc = "design"

cmd_design ==
    /\ pc = "design"
    /\ IF IndexOf(vanilla_data.ship_types, argv.ship_type) = 0
       THEN /\ pc' = "error"
            /\ UNCHANGED <<design, resolved, content>>
       ELSE LET d == parse_notation(argv.notation, argv.ship_type)
                r == find_entity_for_design(vanilla_data, argv.ship_type, argv.slot,
                                            d.weapons)
                key == SectionKey(argv.ship_type, argv.slot, d.tier, argv.notation)
            IN  /\ design' = d
                /\ resolved' = r
                /\ content' = IF r.entity = None THEN content
                              ELSE Append(content,
                                       generate_section_template(key, argv.ship_type,
                                           argv.slot, r.entity, d, r.locator_map))
                /\ pc' = "done"
    /\ UNCHANGED <<vanilla_data, argv, changes, issues, loc_lines>>

NextDesign == cmd_design

SpecDesign == InitDesign /\ [][NextDesign]_vars

(***************************************************************************)
(* cmd_design on a hierarchy whose slots each have a small entity before a *)
(* large one, for the designs where two weapon kinds share a category.     *)
(***************************************************************************)
InitShared ==
    /\ vanilla_data =
           [VanillaData EXCEPT
               !.ship_types =
                   << ShipType(W1("destroyer"),
                          << Slot(W1("bow"),
                                  << Entity(W4("destroyer", "bow", "M1S1", "entity"),
                                            <<MediumGun("01"), SmallGun("01")>>),
                                     Entity(W4("destroyer", "bow", "M2S5", "entity"),
                                            <<MediumGun("01"), MediumGun("02"),
                                              SmallGun("01"), SmallGun("02"),
                                              SmallGun("03"), SmallGun("04"),
                                              SmallGun("05")>>) >>),
                             Slot(W1("mid"),
                                  << Entity(W4("destroyer", "mid", "X1L1", "entity"),
                                            <<XlGun("01"), LargeGun("01")>>),
                                     Entity(W4("destroyer", "mid", "X3", "entity"),
                                            <<XlGun("01"), XlGun("02"), XlGun("03")>>) >>) >>) >>,
               !.ship_base_points = << <<W1("destroyer"), 8>> >>]
    /\ argv \in {[ship_type |-> st, slot |-> W1(s), notation |-> n] :
                    st \in {W1("destroyer"), W1("titan")}, s \in {"bow", "mid"},
                    n \in NotationsOf(MaxDesignTokens)}
    /\ design = NoDesign
    /\ resolved = NoResolved
    /\ content = <<>>
    /\ changes = <<>>
    /\ issues = <<>>
    /\ loc_lines = <<>>
    /\ pc = "design"

SpecShared == InitShared /\ [][NextDesign]_vars

(***************************************************************************)
(* find_entity_for_design on its own, for every context and weapon profile *)
(* a notation gives.                                                       *)
(***************************************************************************)
InitResolve ==
    /\ vanilla_data = VanillaData
    /\ argv \in DesignArgs
    /\ design = NoDesign
    /\ resolved = NoResolved
    /\ content = <<>>
    /\ changes = <<>>
    /\ issues = <<>>
    /\ loc_lines = <<>>
    /\ pc = "resolve"

Resolve ==
    /\ pc = "resolve"
    /\ design' = parse_notation(argv.notation, argv.ship_type)
    /\ resolved' = find_entity_for_design(vanilla_data, argv.ship_type, argv.slot,
                                          design'.weapons)
    /\ pc' = "resolved"
    /\ UNCHANGED <<vanilla_data, argv, content, changes, issues, loc_lines>>

NextResolve == Resolve

SpecResolve == InitResolve /\ [][NextResolve]_vars

(***************************************************************************)
(* The lookups fix_section_errors.py builds from the hierarchy.            *)
(***************************************************************************)
Range(seq) == {seq[i] : i \in 1..Len(seq)}

\* the (ship type, slot, entity) positions of the hierarchy
Places(data) ==
    {p \in (1..Len(data.ship_types)) \X (1..3) \X (1..3) :
        /\ p[2] <= Len(data.ship_types[p[1]].slots)
        /\ p[3] <= Len(data.ship_types[p[1]].slots[p[2]].entities)}

EntityAt(data, p) == data.ship_types[p[1]].slots[p[2]].entities[p[3]]

\* entity in entity_locators
EntityKnown(data, entity) == \E p \in Places(data) : EntityAt(data, p).name = entity

\* build_entity_locator_map: entity_locators.get(entity, set())
entity_locators(data, entity) ==
    UNION {Range(EntityAt(data, p).locators) :
               p \in {q \in Places(data) : EntityAt(data, q).name = entity}}

\* build_entity_to_ship_slot: entity_to_ship_slot[entity]
entity_to_ship_slot(data, entity) ==
    {<<data.ship_types[p[1]].name, data.ship_types[p[1]].slots[p[2]].name>> :
         p \in {q \in Places(data) : EntityAt(data, q).name = entity}}

\* build_ship_slot_entities: ship_slot_entities[ship_type][slot], <<>> when
\* the ship type or the slot is absent
ship_slot_entities(data, ship_type, slot) == Names(EntitiesOf(data, ship_type, slot))

\* build_valid_slots: valid_slots[ship_type], <<>> when the ship type is absent
valid_slots(data, ship_type) == Names(SlotsOf(data, ship_type))

HasShip(data, ship_type) == IndexOf(data.ship_types, ship_type) # 0

HasSlot(data, ship_type, slot) == IndexOf(SlotsOf(data, ship_type), slot) # 0

slot_aliases == {W1("ship"), W1("core"), W1("section"), W1("main")}

normalize_slot_name(slot, ship_type, data) ==
    LET valid == valid_slots(data, ship_type)
    IN  IF HasShip(data, ship_type) /\ InSeq(slot, valid) THEN slot
        ELSE IF slot \in slot_aliases /\ HasShip(data, ship_type) /\ InSeq(W1("mid"), valid)
        THEN W1("mid")
        ELSE IF HasShip(data, ship_type) /\ valid # <<>> THEN valid[1]
        ELSE slot

\* the loop with "len(locs) >= best_count": the last entity with the most
\* locators
MostLocators_LastOnTies(data, entities) ==
    LET count(i) == Cardinality(entity_locators(data, entities[i]))
        best == {i \in 1..Len(entities) :
                    /\ count(i) > 0
                    /\ \A j \in 1..Len(entities) : count(j) <= count(i)
                    /\ \A j \in (i + 1)..Len(entities) : count(j) < count(i)}
    IN  IF best = {} THEN None ELSE entities[CHOOSE i \in best : TRUE]

\* the loop "best = None, best_count = 0; if len(locs) > best_count": the
\* first entity with the most locators, None when no entity has a locator
MostLocators(data, entities) ==
    LET count(i) == Cardinality(entity_locators(data, entities[i]))
        best == {i \in 1..Len(entities) :
                    /\ count(i) > 0
                    /\ \A j \in 1..Len(entities) : count(j) <= count(i)
                    /\ \A j \in 1..(i - 1) : count(j) < count(i)}
    IN  IF best = {} THEN None ELSE entities[CHOOSE i \in best : TRUE]

get_valid_entity_for_slot(ship_type, slot, data) ==
    IF ~HasShip(data, ship_type) THEN None
    ELSE IF ~HasSlot(data, ship_type, slot) THEN None
    ELSE IF ship_slot_entities(data, ship_type, slot) = <<>> THEN None
    ELSE MostLocators(data, ship_slot_entities(data, ship_type, slot))

\* the slots find_default_entity tries, in order
slot_alternatives(slot) ==
    IF slot = W1("core") THEN <<slot, W1("mid"), W1("bow"), W1("stern")>>
    ELSE IF slot = W1("mid") THEN <<slot, W1("core")>>
    ELSE <<slot>>

\* the candidates the loop over slot_alternatives leaves: the entities of the
\* first alternative that has any, else those of the last alternative present
RECURSIVE DefaultCandidates(_, _, _, _)
DefaultCandidates(data, ship_type, alts, candidates) ==
    IF alts = <<>> THEN candidates
    ELSE IF HasSlot(data, ship_type, Head(alts))
    THEN IF ship_slot_entities(data, ship_type, Head(alts)) # <<>>
         THEN ship_slot_entities(data, ship_type, Head(alts))
         ELSE DefaultCandidates(data, ship_type, Tail(alts), <<>>)
    ELSE DefaultCandidates(data, ship_type, Tail(alts), candidates)

find_default_entity(ship_type, slot, data) ==
    IF ~HasShip(data, ship_type) THEN None
    ELSE LET candidates == DefaultCandidates(data, ship_type, slot_alternatives(slot), <<>>)
         IN  IF candidates = <<>> THEN None ELSE MostLocators(data, candidates)

is_entity_valid_for_context(entity, ship_type, slot, data) ==
    IF ~EntityKnown(data, entity) THEN FALSE
    ELSE IF <<ship_type, slot>> \in entity_to_ship_slot(data, entity) THEN TRUE
    ELSE HasShip(data, ship_type) /\ HasSlot(data, ship_type, slot)
            /\ InSeq(entity, ship_slot_entities(data, ship_type, slot))

\* current_entity.replace("_entity", "").split("_")[0]
base_pattern(current_entity) == Split(Replace(current_entity, <<"_", "entity">>, <<>>))[1]

find_best_entity(needed_locators, current_entity, ship_type, slot, data) ==
    LET candidates == ship_slot_entities(data, ship_type, slot)
        locators(i) == entity_locators(data, candidates[i])
        score(i) == Cardinality(needed_locators \cap locators(i))
                        + (IF Contains(candidates[i], base_pattern(current_entity))
                           THEN 5 ELSE 0)
        eligible == {i \in 1..Len(candidates) :
                        /\ locators(i) # {}
                        /\ needed_locators \cap locators(i) = needed_locators
                        /\ score(i) > 0}
        best == {i \in eligible :
                    /\ \A j \in eligible : score(j) <= score(i)
                    /\ \A j \in eligible : j < i => score(j) < score(i)}
    IN  IF candidates = <<>> \/ best = {} THEN None
        ELSE LET best_match == candidates[CHOOSE i \in best : TRUE]
             IN  IF best_match # current_entity THEN best_match ELSE None

(***************************************************************************)
(* fix_section: entity and locator repair of one record.  A change is kept *)
(* as a tuple <<kind, old, new>> in place of its message.                  *)
(***************************************************************************)
\* sorted(valid_locators), for the locator names the hierarchy has
valid_list(valid_locators) ==
    SelectSeq2(<<LargeGun("01"), LargeGun("02"), MediumGun("01"), MediumGun("02"),
                 W4("planet", "killer", "gun", "01"), W1("root"), SmallGun("01"),
                 SmallGun("02"), W2("weapon", "01"), XlGun("01")>>,
               valid_locators)

size_map ==
    << <<W2("xl", "gun"), <<W2("large", "gun"), W2("extra", "large"), W2("xl", "gun")>> >>,
       <<W2("extra", "large"), <<W2("xl", "gun"), W2("large", "gun"), W2("extra", "large")>> >>,
       <<W2("large", "gun"), <<W2("large", "gun"), W2("xl", "gun"), W2("medium", "gun")>> >>,
       <<W2("medium", "gun"), <<W2("medium", "gun"), W2("large", "gun"), W2("small", "gun")>> >>,
       <<W2("small", "gun"), <<W2("small", "gun"), W2("medium", "gun"), W2("point", "defence")>> >>,
       <<W2("main", "body"), <<W1("root"), W1("core"), W2("weapon", "01")>> >>,
       <<W1("weapon"), <<W2("weapon", "01"), W2("weapon", "02"), W1("root")>> >> >>

\* the loops over preferences and valid_list: the first valid locator that
\* holds the first preference any valid locator holds
RECURSIVE PreferredLocator(_, _)
PreferredLocator(preferences, valid) ==
    IF preferences = <<>> THEN None
    ELSE LET hits == {i \in 1..Len(valid) : Contains(valid[i], Head(preferences))}
         IN  IF hits # {} THEN valid[CHOOSE i \in hits : \A j \in hits : i <= j]
             ELSE PreferredLocator(Tail(preferences), valid)

\* mapping[needed] of get_locator_mapping, for an invalid locator
best_match(needed, valid_locators) ==
    LET valid == valid_list(valid_locators)
        keys == {k \in 1..Len(size_map) : Contains(needed, size_map[k][1])}
        found == IF keys = {} THEN None
                 ELSE PreferredLocator(
                          size_map[CHOOSE k \in keys : \A j \in keys : k <= j][2], valid)
    IN  IF found # None THEN found ELSE valid[1]

\* mapping.get(locator, locator): get_locator_mapping maps the locators that
\* are not valid and has no entry when there is no valid locator
get_locator_mapping(locator, valid_locators) ==
    IF valid_locators = {} \/ locator \in valid_locators THEN locator
    ELSE best_match(locator, valid_locators)

\* the concatenation of a sequence of sequences
RECURSIVE Flatten(_)
Flatten(seqs) == IF seqs = <<>> THEN <<>> ELSE Head(seqs) \o Flatten(Tail(seqs))

\* a sequence without the repetitions of its entries
RECURSIVE Dedupe(_)
Dedupe(seq) ==
    IF seq = <<>> THEN <<>>
    ELSE LET front == Dedupe(SubSeq(seq, 1, Len(seq) - 1))
         IN  IF InSeq(seq[Len(seq)], front) THEN front ELSE Append(front, seq[Len(seq)])

\* the locator names of a block in the order of their first occurrence
LocatorNames(block) ==
    Dedupe(SelectSeq2(
        Flatten([i \in 1..Len(block) |->
                    [j \in 1..Len(block[i].component_slots) |->
                        Leading(block[i].component_slots[j].locatorname, {"\""})]]),
        extract_section_data(block).locators))

\* re.sub(entity = "old", entity = "new") over the block
SetEntity(block, old_entity, new_entity) ==
    [i \in 1..Len(block) |->
        [block[i] EXCEPT !.entity = IF @ = old_entity THEN new_entity ELSE @]]

\* re.sub(locatorname = "old", locatorname = "new") for every mapped locator
MapLocators(block, valid_locators) ==
    [i \in 1..Len(block) |->
        [block[i] EXCEPT !.component_slots =
            [j \in 1..Len(block[i].component_slots) |->
                [block[i].component_slots[j] EXCEPT !.locatorname =
                    get_locator_mapping(@, valid_locators)]]]]

LocatorChanges(block, valid_locators) ==
    LET names == LocatorNames(block)
        moved == SelectSeq2(names, {n \in Range(names) :
                                       get_locator_mapping(n, valid_locators) # n})
    IN  [i \in 1..Len(moved) |->
            <<"locator", moved[i], get_locator_mapping(moved[i], valid_locators)>>]

\* Strategy 0: an entity of another ship type or slot gives way to the entity
\* get_valid_entity_for_slot names.  A strategy leaves the entity, the block
\* and the changes so far.
Strategy0(block, data, d, ship_type, slot) ==
    LET correct_entity == IF is_entity_valid_for_context(d.entity, ship_type, slot, data)
                          THEN None
                          ELSE get_valid_entity_for_slot(ship_type, slot, data)
    IN  IF correct_entity # None
        THEN [entity |-> correct_entity,
              content |-> SetEntity(block, d.entity, correct_entity),
              changes |-> << <<"wrong_context", d.entity, correct_entity>> >>]
        ELSE [entity |-> d.entity, content |-> block, changes |-> <<>>]

\* Strategy 1: an entity the hierarchy lacks gives way to the default entity
Strategy1(fixed, data, ship_type, slot) ==
    LET default_entity == IF EntityKnown(data, fixed.entity) THEN None
                          ELSE find_default_entity(ship_type, slot, data)
    IN  IF default_entity # None
        THEN [entity |-> default_entity,
              content |-> SetEntity(fixed.content, fixed.entity, default_entity),
              changes |-> Append(fixed.changes,
                                 <<"unknown_entity", fixed.entity, default_entity>>)]
        ELSE fixed

\* Strategy 2 and Strategy 3: a better entity for the locators, else the
\* locators mapped to those of the entity
Strategy2(fixed, data, needed_locators, ship_type, slot) ==
    LET valid_locators == entity_locators(data, fixed.entity)
        better_entity == find_best_entity(needed_locators, fixed.entity, ship_type, slot,
                                          data)
    IN  IF needed_locators = {} \/ needed_locators \ valid_locators = {}
        THEN [content |-> fixed.content, changes |-> fixed.changes]
        ELSE IF better_entity # None
        THEN [content |-> SetEntity(fixed.content, fixed.entity, better_entity),
              changes |-> Append(fixed.changes,
                                 <<"better_entity", fixed.entity, better_entity>>)]
        ELSE IF valid_locators # {}
        THEN [content |-> MapLocators(fixed.content, valid_locators),
              changes |-> fixed.changes \o LocatorChanges(fixed.content, valid_locators)]
        ELSE [content |-> fixed.content, changes |-> fixed.changes]

\* the locators judged against the entity the record came with
FixSectionData_StaleEntity(block, data, d, slot) ==
    IF d.entity = <<>> THEN [content |-> block, changes |-> <<>>]
    ELSE Strategy2([Strategy1(Strategy0(block, data, d, d.ship_size, slot),
                              data, d.ship_size, slot) EXCEPT !.entity = d.entity],
                   data, d.locators, d.ship_size, slot)

\* fix_section once extract_section_data has read the block
FixSectionData(block, data, d, slot) ==
    IF d.entity = <<>> THEN [content |-> block, changes |-> <<>>]
    ELSE Strategy2(Strategy1(Strategy0(block, data, d, d.ship_size, slot),
                             data, d.ship_size, slot),
                   data, d.locators, d.ship_size, slot)

fix_section(block, data) ==
    FixSectionData(block, data, extract_section_data(block),
                   IF extract_section_data(block).slot = <<>> THEN W1("mid")
                   ELSE extract_section_data(block).slot)

(***************************************************************************)
(* The passes of process_file over the records of a file.                  *)
(***************************************************************************)
\* fix_key of fix_section_tiers on the key of one record; the pattern
\* key = "(PBSS_[^"]+)" matches every key the first guard lets through.
\* The ship type is the parts before the slot, else those with the slot.
KeyShipType(parts, tier_idx, data) ==
    IF InBasePoints(data, Lower(Join(SubSeq(parts, 2, tier_idx - 2))))
    THEN Lower(Join(SubSeq(parts, 2, tier_idx - 2)))
    ELSE Lower(Join(SubSeq(parts, 2, tier_idx - 1)))

\* the key cut after its new tier token: the notation is lost
SetTier_DropNotation(full_key, current_tier, correct_tier) ==
    IF correct_tier # current_tier
    THEN [key |-> SubSeq(full_key, 1, Len(full_key) - Len(Split(full_key)[Len(Split(full_key))]) - 1),
          changes |-> << <<"tier", full_key, full_key>> >>]
    ELSE [key |-> full_key, changes |-> <<>>]

\* full_key.replace(f"_{current_tier}_", f"_{correct_tier}_") and its change
SetTier(full_key, current_tier, correct_tier) ==
    IF correct_tier # current_tier
    THEN [key |-> Replace(full_key, <<"_">> \o current_tier \o <<"_">>,
                          <<"_">> \o correct_tier \o <<"_">>),
          changes |-> << <<"tier", full_key,
                           Replace(full_key, <<"_">> \o current_tier \o <<"_">>,
                                   <<"_">> \o correct_tier \o <<"_">>)>> >>]
    ELSE [key |-> full_key, changes |-> <<>>]

FixKeyParts(full_key, parts, tier_idx, data) ==
    IF Len(parts) < 5 \/ parts[1] # <<"PBSS">> THEN [key |-> full_key, changes |-> <<>>]
    ELSE IF tier_idx = 0 THEN [key |-> full_key, changes |-> <<>>]
    ELSE IF ~InBasePoints(data, KeyShipType(parts, tier_idx, data))
    THEN [key |-> full_key, changes |-> <<>>]
    ELSE SetTier(full_key, parts[tier_idx],
                 <<UpperChunk(parse_notation(
                                  Join(SubSeq(parts, tier_idx + 1, Len(parts))),
                                  KeyShipType(parts, tier_idx, data)).tier)>>)

fix_key(full_key, data) ==
    FixKeyParts(full_key, Split(full_key), TierIndex(Split(full_key)), data)

\* the results of a pass over the parts of a file, put together
Gather(fixed) ==
    [content |-> Flatten([i \in 1..Len(fixed) |-> fixed[i].content]),
     changes |-> Flatten([i \in 1..Len(fixed) |-> fixed[i].changes])]

fix_section_tiers(records, data) ==
    LET fixed(i) == fix_key(Leading(records[i].key, {"\""}), data)
    IN  Gather([i \in 1..Len(records) |->
                   [content |-> <<[records[i] EXCEPT !.key = fixed(i).key]>>,
                    changes |-> fixed(i).changes]])

\* the opening and the closing line of a modifier block among record.modifiers
ModifierOpen == <<"{">>

ModifierClose == <<"}">>

\* the sections the brace counter finds: a section runs to its closing
\* brace, so one whose modifier block has lost its closing brace runs to the
\* end of the file
Blocks(records) ==
    LET open == {i \in 1..Len(records) :
                    /\ InSeq(ModifierOpen, records[i].modifiers)
                    /\ ~InSeq(ModifierClose, records[i].modifiers)}
        first == IF open = {} THEN Len(records) + 1
                 ELSE CHOOSE i \in open : \A j \in open : i <= j
    IN  [i \in 1..(first - 1) |-> <<records[i]>>]
            \o (IF open = {} THEN <<>> ELSE <<SubSeq(records, first, Len(records))>>)

\* content.replace(f"fits_on_slot = {current_slot}", f"fits_on_slot = {normalized}")
SetSlot(block, ship_type, current_slot, normalized) ==
    IF ship_type # <<>> /\ current_slot # <<>> /\ normalized # current_slot
    THEN [content |->
             [i \in 1..Len(block) |->
                 [block[i] EXCEPT !.fits_on_slot =
                     IF StartsAt(@, 1, current_slot)
                     THEN normalized \o SubSeq(@, Len(current_slot) + 1, Len(@))
                     ELSE @]],
          changes |-> << <<"slot", current_slot, normalized>> >>]
    ELSE [content |-> block, changes |-> <<>>]

\* fix_slot_names on one section
fix_slot_name(block, data) ==
    SetSlot(block, extract_section_data(block).ship_size, extract_section_data(block).slot,
            normalize_slot_name(extract_section_data(block).slot,
                                extract_section_data(block).ship_size, data))

fix_slot_names(records, data) ==
    Gather([i \in 1..Len(Blocks(records)) |-> fix_slot_name(Blocks(records)[i], data)])

\* a substitution applied to every word of a record that a name can match:
\* re.sub(rf"\b{old}\b", new, text) when whole, text.replace(old, new) else
MapWords(section, old, new, whole) ==
    LET F(word) == IF whole THEN (IF word = old THEN new ELSE word)
                   ELSE Replace(word, old, new)
    IN  [key |-> F(section.key),
         ship_size |-> F(section.ship_size),
         fits_on_slot |-> F(section.fits_on_slot),
         entity |-> F(section.entity),
         icon |-> section.icon,
         ai_tags |-> section.ai_tags,
         component_slots |->
            [i \in 1..Len(section.component_slots) |->
                [name |-> F(section.component_slots[i].name),
                 template |-> F(section.component_slots[i].template),
                 rotation |-> section.component_slots[i].rotation,
                 locatorname |-> F(section.component_slots[i].locatorname)]],
         utility_slots |-> section.utility_slots,
         alloys |-> section.alloys,
         modifiers |-> [i \in 1..Len(section.modifiers) |-> F(section.modifiers[i])],
         prerequisites |-> [i \in 1..Len(section.prerequisites) |-> F(section.prerequisites[i])]]

\* the lines left of a modifier block by
\* re.sub(rf"^\s*{old}\s*=\s*[\d.\-]+\s*#?.*$\n?", ""): the \s* after the
\* value runs over the line break, so the line after the modifier goes too
RECURSIVE RemoveModifier(_, _)
RemoveModifier(lines, old_mod) ==
    IF lines = <<>> THEN <<>>
    ELSE IF Head(lines) = old_mod
    THEN RemoveModifier(SubSeq(lines, 3, Len(lines)), old_mod)
    ELSE <<Head(lines)>> \o RemoveModifier(Tail(lines), old_mod)

\* one iteration of the loop of fix_modifiers: a modifier mapped to None loses
\* its "name = value" line, any other is renamed wherever the word stands
fix_modifier(section, old_mod, new_mod) ==
    IF new_mod = None
    THEN [section EXCEPT !.modifiers = RemoveModifier(@, old_mod)]
    ELSE MapWords(section, old_mod, new_mod, TRUE)

RECURSIVE fix_modifiers(_, _)
fix_modifiers(records, replacements) ==
    IF replacements = <<>> THEN records
    ELSE fix_modifiers(
             [i \in 1..Len(records) |->
                 fix_modifier(records[i], Head(replacements)[1], Head(replacements)[2])],
             Tail(replacements))

\* content.replace(old_tech, new_tech) for every entry of the map, in order
RECURSIVE fix_tech_references(_, _)
fix_tech_references(records, replacements) ==
    IF replacements = <<>> THEN records
    ELSE fix_tech_references(
             [i \in 1..Len(records) |->
                 MapWords(records[i], Head(replacements)[1], Head(replacements)[2], FALSE)],
             Tail(replacements))

\* "if changes: content = new_content; all_changes.extend(changes)"
Extend(run, pass) ==
    [content |-> IF pass.changes # <<>> THEN pass.content ELSE run.content,
     changes |-> run.changes \o pass.changes]

\* "if new_content != content: all_changes.append(...); content = new_content"
Rewrite(run, new_content, change) ==
    [content |-> new_content,
     changes |-> run.changes \o (IF new_content # run.content THEN <<change>> ELSE <<>>)]

\* the loop over the sections, fix_section on each
fix_sections(records, data) ==
    Gather([i \in 1..Len(Blocks(records)) |-> fix_section(Blocks(records)[i], data)])

\* the passes of process_file from pass n on, each on the text and the
\* changes the passes before it left
RECURSIVE process_passes(_, _, _)
process_passes(run, data, n) ==
    IF n = 1
    THEN process_passes(Extend(run, fix_section_tiers(run.content, data)), data, 2)
    ELSE IF n = 2
    THEN process_passes(Extend(run, fix_slot_names(run.content, data)), data, 3)
    ELSE IF n = 3
    THEN process_passes(Rewrite(run, fix_modifiers(run.content, data.modifiers),
                                <<"modifiers">>),
                        data, 4)
    ELSE IF n = 4
    THEN process_passes(Rewrite(run,
                                fix_tech_references(run.content, data.technologies),
                                <<"tech">>),
                        data, 5)
    ELSE Extend(run, fix_sections(run.content, data))

process_file(records, data) ==
    process_passes([content |-> records, changes |-> <<>>], data, 1)

(***************************************************************************)
(* validate_sections.py: the issues validate_file reports, each kept as a  *)
(* pair <<issue_type, subject>> in place of its message.                   *)
(***************************************************************************)
\* the issues of one section, d the fields extract_sections has read from it
validate_section(block, d, data) ==
    LET valid_entities == ship_slot_entities(data, d.ship_size, d.slot)
        locators == SelectSeq2(
                        Flatten([i \in 1..Len(block) |->
                                    [j \in 1..Len(block[i].component_slots) |->
                                        Leading(block[i].component_slots[j].locatorname,
                                                {"\""})]]),
                        d.locators)
        valid_locs == entity_locators(data, d.entity)
        modifiers == SelectSeq2(
                         Flatten([i \in 1..Len(block) |-> block[i].modifiers]),
                         {m \in UNION {Range(block[i].modifiers) : i \in 1..Len(block)} :
                              Contains(m, <<"ship", "_">>)})
        techs == SelectSeq2(
                     Flatten([i \in 1..Len(block) |-> block[i].prerequisites]),
                     {t \in UNION {Range(block[i].prerequisites) : i \in 1..Len(block)} :
                          StartsAt(t, 1, <<"tech", "_">>)})
    IN  (IF d.ship_size # <<>> /\ ~HasShip(data, d.ship_size)
         THEN << <<"unknown_ship_type", d.ship_size>> >> ELSE <<>>)
        \o (IF d.ship_size # <<>> /\ d.slot # <<>>
                 /\ valid_slots(data, d.ship_size) # <<>>
                 /\ ~InSeq(d.slot, valid_slots(data, d.ship_size))
            THEN << <<"invalid_slot", d.slot>> >> ELSE <<>>)
        \o (IF d.entity # <<>> /\ d.ship_size # <<>> /\ d.slot # <<>>
            THEN IF valid_entities # <<>> /\ ~InSeq(d.entity, valid_entities)
                 THEN IF EntityKnown(data, d.entity)
                      THEN << <<"wrong_entity_context", d.entity>> >>
                      ELSE << <<"unknown_entity", d.entity>> >>
                 ELSE <<>>
            ELSE IF d.entity # <<>> /\ ~EntityKnown(data, d.entity)
            THEN << <<"unknown_entity", d.entity>> >>
            ELSE <<>>)
        \o (IF d.entity # <<>> /\ EntityKnown(data, d.entity) /\ valid_locs # {}
            THEN [i \in 1..Len(SelectSeq2(locators, Range(locators) \ valid_locs)) |->
                     <<"invalid_locator",
                       SelectSeq2(locators, Range(locators) \ valid_locs)[i]>>]
            ELSE <<>>)
        \o [i \in 1..Len(SelectSeq2(modifiers, {r[1] : r \in Range(data.modifiers)})) |->
               <<"invalid_modifier",
                 SelectSeq2(modifiers, {r[1] : r \in Range(data.modifiers)})[i]>>]
        \o [i \in 1..Len(SelectSeq2(techs, {r[1] : r \in Range(data.technologies)})) |->
               <<"invalid_tech",
                 SelectSeq2(techs, {r[1] : r \in Range(data.technologies)})[i]>>]

validate_file(records, data) ==
    Flatten([i \in 1..Len(Blocks(records)) |->
                validate_section(Blocks(records)[i],
                                 extract_section_data(Blocks(records)[i]), data)])

(***************************************************************************)
(* The repairer run on hand-written records: the tier pass alone, the      *)
(* per-record pass alone, and process_file, which may be run again on its  *)
(* own output.                                                             *)
(***************************************************************************)
\* a record as a maintainer writes it, one component_slot per locator
HandRecord(key, context, entity, locators, modifiers, prerequisites) ==
    [key |-> key,
     ship_size |-> context[1],
     fits_on_slot |-> context[2],
     entity |-> entity,
     icon |-> Icon(context[2]),
     ai_tags |-> <<>>,
     component_slots |->
        [i \in 1..Len(locators) |->
            [name |-> <<"GUN", "_", Fmt02(i)>>,
             template |-> TEMPLATES("M"),
             rotation |-> 0,
             locatorname |-> locators[i]]],
     utility_slots |-> <<[name |-> "large_utility_slots", count |-> 1]>>,
     alloys |-> 80,
     modifiers |-> modifiers,
     prerequisites |-> prerequisites]

RepairKeys ==
    { <<"PBSS", "_", "BATTLESHIP", "_", "BOW", "_", "ADVANCED", "_", "T", "1", "U", "L", "1">>,
      <<"PBSS", "_", "BATTLESHIP", "_", "BOW", "_", "COMMON", "_", "T", "1", "U", "L", "1">>,
      <<"PBSS", "_", "BATTLESHIP", "_", "BOW", "_", "COMMON", "_", "T", "2", "X", "1", "U", "L", "2">>,
      <<"PBSS", "_", "CORVETTE", "_", "MID", "_", "PRO", "_", "S", "3">>,
      <<"PBSS", "_", "CRISIS", "_", "CORVETTE", "_", "MID", "_", "ULTRA">>,
      <<"PBSS", "_", "COLOSSUS", "_", "MID", "_", "ULTRA", "_", "W", "1">>,
      <<"BATTLESHIP", "_", "BOW", "_", "L", "1", "M", "1", "S", "2">> }

RepairModifiers ==
    { <<>>,
      <<ModifierOpen, W4("ship", "weapon", "damage", "mult"),
        W4("fleet", "command", "limit", "add"), W3("ship", "hull", "add"), ModifierClose>>,
      <<ModifierOpen, W3("ship", "hull", "add"), W4("fleet", "command", "limit", "add"),
        ModifierClose>>,
      <<ModifierOpen, W4("fleet", "command", "limit", "add"), W3("ship", "repair", "mult"),
        ModifierClose>> }

\* the records drawn: every context, entity and locator list under one key,
\* and every key, modifier list and prerequisite list under two contexts
RepairRecords ==
    LET RepairContexts ==
            { <<W1("battleship"), W1("bow")>>, <<W1("battleship"), W1("mid")>>,
              <<W1("battleship"), W1("core")>>, <<W1("corvette"), W1("mid")>>,
              <<W1("corvette"), W1("bow")>>, <<W1("titan"), W1("mid")>> }
        RepairEntities ==
            { BattleshipBowGuns.name, BattleshipMidBare.name, BattleshipSternGuns.name,
              CorvetteMidGuns.name, W3("destroyer", "mid", "entity") }
        RepairLocators ==
            { <<>>, <<LargeGun("01")>>, <<SmallGun("01"), SmallGun("03")>>,
              <<XlGun("01"), W1("root"), XlGun("01")>> }
        RepairPrerequisites ==
            { <<>>, <<W3("tech", "railguns", "1"), W2("tech", "lasers")>> }
    IN  {HandRecord(<<"PBSS", "_", "CORVETTE", "_", "MID", "_", "PRO", "_", "S", "3">>,
                    c, e, l, <<>>, <<>>) :
            c \in RepairContexts, e \in RepairEntities, l \in RepairLocators}
        \cup {HandRecord(k, c, BattleshipBowGuns.name, <<LargeGun("01")>>, m, t) :
                k \in RepairKeys,
                c \in {<<W1("battleship"), W1("bow")>>, <<W1("battleship"), W1("core")>>},
                m \in RepairModifiers, t \in RepairPrerequisites}

\* the files drawn: every record on its own, and files of two records
RepairFiles ==
    {<<r>> : r \in RepairRecords}
    \cup {<<r, s>> :
            r \in {HandRecord(k, <<W1("battleship"), W1("bow")>>, BattleshipSternGuns.name,
                              <<>>, m, <<>>) : k \in RepairKeys, m \in RepairModifiers},
            s \in {HandRecord(k, <<W1("corvette"), W1("core")>>, BattleshipSternGuns.name,
                              <<SmallGun("01")>>, <<>>, <<>>) :
                      k \in { <<"PBSS", "_", "CORVETTE", "_", "MID", "_", "PRO", "_", "S", "3">>,
                              <<"PBSS", "_", "COLOSSUS", "_", "MID", "_", "ULTRA", "_", "W", "1">> }}}

InitRepair ==
    \* the hierarchy, or one whose technology map a maintainer has extended
    \* with a rename whose new name begins with the old one
    /\ vanilla_data \in
          {VanillaData,
           [VanillaData EXCEPT
               !.technologies = Append(@, <<W2("tech", "lasers"),
                                            W3("tech", "lasers", "1")>>)]}
    /\ argv = [ship_type |-> <<>>, slot |-> <<>>, notation |-> <<>>]
    /\ design = NoDesign
    /\ resolved = NoResolved
    /\ content \in RepairFiles
    /\ changes = <<>>
    /\ issues = <<>>
    /\ loc_lines = <<>>
    /\ pc = "repair"

\* fix_section_tiers over the file
FixSectionTiers ==
    /\ pc = "repair"
    /\ content' = fix_section_tiers(content, vanilla_data).content
    /\ changes' = fix_section_tiers(content, vanilla_data).changes
    /\ pc' = "tiers"
    /\ UNCHANGED <<vanilla_data, argv, design, resolved, issues, loc_lines>>

\* the loop of process_file over the sections of the file, fix_section on each
FixSections ==
    /\ pc = "repair"
    /\ content' = fix_sections(content, vanilla_data).content
    /\ changes' = fix_sections(content, vanilla_data).changes
    /\ pc' = "sections"
    /\ UNCHANGED <<vanilla_data, argv, design, resolved, issues, loc_lines>>

\* process_file, on the file as written or on the output of the last run
ProcessFile ==
    /\ pc \in {"repair", "processed"}
    /\ content' = process_file(content, vanilla_data).content
    /\ changes' = process_file(content, vanilla_data).changes
    /\ pc' = IF pc = "repair" THEN "processed" ELSE "processed again"
    /\ UNCHANGED <<vanilla_data, argv, design, resolved, issues, loc_lines>>

\* validate_file over the file
ValidateFile ==
    /\ pc = "repair"
    /\ issues' = validate_file(content, vanilla_data)
    /\ pc' = "validated"
    /\ UNCHANGED <<vanilla_data, argv, design, resolved, content, changes, loc_lines>>

NextRepair == FixSectionTiers \/ FixSections \/ ProcessFile \/ ValidateFile

SpecRepair == InitRepair /\ [][NextRepair]_vars

(***************************************************************************)
(* The audits and the removals of fix_section_errors.py.  The section      *)
(* files are the records of content, the localisation files the lines of   *)
(* loc_lines, and issues holds the entries the audit flagged.              *)
(***************************************************************************)
\* SHIP_SIZE_CLASS.get(ship_type, DEFAULT_SIZE_CLASS)
SHIP_SIZE_CLASS(ship_type) ==
    IF ship_type \in {W1("corvette"), W1("frigate"), W2("crisis", "corvette"),
                      W2("offspring", "corvette"), W3("cosmo", "crisis", "mauler"),
                      W3("mauler", "stage", "1"), W3("mauler", "stage", "2"),
                      W3("mauler", "stage", "3"), W4("offspring", "mauler", "stage", "1"),
                      W4("offspring", "mauler", "stage", "2"),
                      W4("offspring", "mauler", "stage", "3")}
    THEN 1
    ELSE IF ship_type \in {W1("destroyer"), W2("crisis", "destroyer"),
                           W2("offspring", "destroyer"), W3("cosmo", "crisis", "destroyer"),
                           W3("cosmo", "crisis", "weaver"), W3("weaver", "stage", "1"),
                           W3("weaver", "stage", "2"), W3("weaver", "stage", "3"),
                           W4("offspring", "weaver", "stage", "1"),
                           W4("offspring", "weaver", "stage", "2"),
                           W4("offspring", "weaver", "stage", "3")}
    THEN 2
    ELSE 3

\* class 2 forbidding the X kind as well
FORBIDDEN_WEAPONS_BY_SIZE_XInClassTwo(size_class) ==
    CASE size_class = 1 -> {"X", "T"} [] size_class = 2 -> {"X", "T"} [] OTHER -> {}

\* FORBIDDEN_WEAPONS_BY_SIZE.get(size_class, set())
FORBIDDEN_WEAPONS_BY_SIZE(size_class) ==
    CASE size_class = 1 -> {"X", "T"} [] size_class = 2 -> {"T"} [] OTHER -> {}

\* SHIP_BASE_POINTS.get(ship_type, DEFAULT_BASE_POINTS)
SHIP_BASE_POINTS(data, ship_type) ==
    IF InBasePoints(data, ship_type)
    THEN data.ship_base_points[CHOOSE i \in 1..Len(data.ship_base_points) :
                                   data.ship_base_points[i][1] = ship_type][2]
    ELSE 12

\* re.search(r'key\s*=\s*"(PBSS_[^"]+)"', block): <<>> when there is no match,
\* which parse_section_key does not parse either
PbssKey(block) ==
    FirstMatch([j \in 1..Len(block) |->
                   IF /\ StartsAt(block[j].key, 1, <<"PBSS", "_">>)
                      /\ Len(Leading(block[j].key, {"\""})) > 2
                   THEN Leading(block[j].key, {"\""}) ELSE <<>>])

\* {w for w in design.weapons if w in forbidden and design.weapons[w] > 0}
Violations(weapons, forbidden) ==
    {w \in DOMAIN weapons : w \in forbidden /\ weapons[w] > 0}

\* the body of the loop of audit_oversized on one parsed key
OversizedEntry(parsed) ==
    IF /\ parsed.ok
       /\ Violations(parse_notation(parsed.notation, parsed.ship_type).weapons,
                     FORBIDDEN_WEAPONS_BY_SIZE(SHIP_SIZE_CLASS(parsed.ship_type))) # {}
    THEN <<[key |-> parsed.full_key, ship_type |-> parsed.ship_type,
            violations |->
               Violations(parse_notation(parsed.notation, parsed.ship_type).weapons,
                          FORBIDDEN_WEAPONS_BY_SIZE(SHIP_SIZE_CLASS(parsed.ship_type)))]>>
    ELSE <<>>

audit_oversized(records, data) ==
    Flatten([i \in 1..Len(Blocks(records)) |->
                OversizedEntry(parse_section_key(data, PbssKey(Blocks(records)[i])))])

\* ratio > threshold: a ratio equal to the threshold does not count
RatioAbove(total_points, base, threshold_x10) ==
    IF base > 0 THEN total_points * 10 > threshold_x10 * base
    ELSE 0 > threshold_x10

\* ratio >= threshold, the threshold in tenths: ratio is total_points / base,
\* and 0 when base is not positive
RatioAtLeast(total_points, base, threshold_x10) ==
    IF base > 0 THEN total_points * 10 >= threshold_x10 * base
    ELSE 0 >= threshold_x10

\* the body of the loop of audit_sections on one parsed key
AuditEntry(parsed, data, threshold_x10) ==
    IF /\ parsed.ok
       /\ RatioAtLeast(parse_notation(parsed.notation, parsed.ship_type).total_points,
                       SHIP_BASE_POINTS(data, parsed.ship_type), threshold_x10)
    THEN <<[key |-> parsed.full_key, ship_type |-> parsed.ship_type, violations |-> {}]>>
    ELSE <<>>

audit_sections(records, data, threshold_x10) ==
    Flatten([i \in 1..Len(Blocks(records)) |->
                AuditEntry(parse_section_key(data, PbssKey(Blocks(records)[i])),
                           data, threshold_x10)])

\* {entry["key"] for entry in flagged}
KeysToRemove(flagged) == {flagged[i].key : i \in 1..Len(flagged)}

\* remove_sections_from_file: the blocks whose key is to be removed go, the
\* other blocks stay in their order
remove_sections_from_file(records, keys_to_remove) ==
    Flatten([i \in 1..Len(Blocks(records)) |->
                IF PbssKey(Blocks(records)[i]) # <<>>
                   /\ PbssKey(Blocks(records)[i]) \in keys_to_remove
                THEN <<>> ELSE Blocks(records)[i]])

\* a line goes when it starts with a removed key, whatever follows
remove_loc_keys_ByPrefix(lines, keys_to_remove) ==
    SelectSeq2(lines, {l \in Range(lines) :
                          ~\E key \in keys_to_remove : StartsAt(l, 1, key)})

\* remove_loc_keys: a line goes when it starts with a removed key and a colon
remove_loc_keys(lines, keys_to_remove) ==
    SelectSeq2(lines, {l \in Range(lines) :
                          ~\E key \in keys_to_remove : StartsAt(l, 1, key \o <<":">>)})

(***************************************************************************)
(* --audit, --remove-above, --audit-size and --remove-oversized run on     *)
(* well-formed section files of one or two records and on localisation     *)
(* lines of the form KEY:0 and KEY_DESC:0.                                 *)
(***************************************************************************)
AuditKeys ==
    << <<"PBSS", "_", "CORVETTE", "_", "MID", "_", "COMMON", "_", "S", "3">>,
       <<"PBSS", "_", "CORVETTE", "_", "MID", "_", "COMMON", "_", "S", "4">>,
       <<"PBSS", "_", "CORVETTE", "_", "MID", "_", "COMMON", "_", "X", "1">>,
       <<"PBSS", "_", "CORVETTE", "_", "MID", "_", "COMMON", "_", "X", "1", "X", "0">>,
       <<"PBSS", "_", "CRISIS", "_", "CORVETTE", "_", "MID", "_", "COMMON", "_", "T", "1">>,
       <<"PBSS", "_", "DESTROYER", "_", "BOW", "_", "COMMON", "_", "X", "1">>,
       <<"PBSS", "_", "DESTROYER", "_", "BOW", "_", "COMMON", "_", "T", "1">>,
       <<"PBSS", "_", "BATTLESHIP", "_", "BOW", "_", "ULTRA", "_", "T", "2", "X", "1", "U", "L", "2">>,
       <<"PBSS", "_", "BATTLESHIP", "_", "BOW", "_", "COMMON", "_", "L", "2">>,
       <<"PBSS", "_", "COLOSSUS", "_", "MID", "_", "ULTRA", "_", "T", "1">>,
       <<"BATTLESHIP", "_", "BOW", "_", "T", "1">> >>

AuditFiles ==
    LET AuditRecord(key) ==
            HandRecord(key, <<W1("battleship"), W1("bow")>>, BattleshipBowGuns.name,
                       <<LargeGun("01")>>, <<>>, <<>>)
    IN  {<<AuditRecord(AuditKeys[i])>> : i \in 1..Len(AuditKeys)}
        \cup {<<AuditRecord(AuditKeys[i]), AuditRecord(AuditKeys[j])>> :
                i \in 1..Len(AuditKeys), j \in 1..Len(AuditKeys)}

\* the localisation lines of every key, with or without a description line
LocLines(described) ==
    Flatten([i \in 1..Len(AuditKeys) |->
                <<AuditKeys[i] \o <<":", "0">>>>
                \o (IF described THEN <<AuditKeys[i] \o <<"_", "DESC", ":", "0">>>>
                    ELSE <<>>)])

InitAudit ==
    \* the hierarchy with base points for a ship type of size class 2
    /\ vanilla_data =
          [VanillaData EXCEPT !.ship_base_points = Append(@, <<W1("destroyer"), 8>>)]
    /\ argv \in {[threshold_x10 |-> t] : t \in {10, 20}}
    /\ design = NoDesign
    /\ resolved = NoResolved
    /\ content \in AuditFiles
    /\ changes = <<>>
    /\ issues = <<>>
    /\ loc_lines \in {LocLines(TRUE), LocLines(FALSE)}
    /\ pc = "audit"

\* --audit MULT
cmd_audit ==
    /\ pc = "audit"
    /\ issues' = audit_sections(content, vanilla_data, argv.threshold_x10)
    /\ pc' = "audited"
    /\ UNCHANGED <<vanilla_data, argv, design, resolved, content, changes, loc_lines>>

\* --remove-above MULT
cmd_remove ==
    /\ pc = "audit"
    /\ issues' = audit_sections(content, vanilla_data, argv.threshold_x10)
    /\ content' = remove_sections_from_file(
                      content,
                      KeysToRemove(audit_sections(content, vanilla_data,
                                                  argv.threshold_x10)))
    /\ loc_lines' = remove_loc_keys(
                        loc_lines,
                        KeysToRemove(audit_sections(content, vanilla_data,
                                                    argv.threshold_x10)))
    /\ pc' = "removed"
    /\ UNCHANGED <<vanilla_data, argv, design, resolved, changes>>

\* --audit-size
cmd_audit_size ==
    /\ pc = "audit"
    /\ issues' = audit_oversized(content, vanilla_data)
    /\ pc' = "audited size"
    /\ UNCHANGED <<vanilla_data, argv, design, resolved, content, changes, loc_lines>>

\* --remove-oversized
cmd_remove_oversized ==
    /\ pc = "audit"
    /\ issues' = audit_oversized(content, vanilla_data)
    /\ content' = remove_sections_from_file(
                      content, KeysToRemove(audit_oversized(content, vanilla_data)))
    /\ loc_lines' = remove_loc_keys(
                        loc_lines, KeysToRemove(audit_oversized(content, vanilla_data)))
    /\ pc' = "removed oversized"
    /\ UNCHANGED <<vanilla_data, argv, design, resolved, changes>>

NextAudit == cmd_audit \/ cmd_remove \/ cmd_audit_size \/ cmd_remove_oversized

SpecAudit == InitAudit /\ [][NextAudit]_vars

(***************************************************************************)
(* parse_section_key on the keys of every ship type, slot, tier and        *)
(* notation drawn, followed by parse_notation as the audits and the tier   *)
(* pass call it.  The ship types drawn include one without base points     *)
(* (colossus) and one that is the first word of another (crisis); the      *)
(* slots include one that is the second word of a ship type.               *)
(***************************************************************************)
InitKey ==
    /\ vanilla_data \in
          {VanillaData,
           [VanillaData EXCEPT !.ship_base_points = Append(@, <<W1("destroyer"), 8>>)]}
    /\ argv \in [ship_type : {W1("battleship"), W1("corvette"), W2("crisis", "corvette"),
                              W1("crisis"), W1("colossus"), W1("destroyer")},
                 slot : {W1("bow"), W1("mid"), W1("corvette")},
                 tier : {"common", "advanced", "pro", "ultra", "ultimate"},
                 notation : {<<"T", "1">>, <<"S", "3">>, <<"A", "U", "X", "2">>}]
    /\ design = NoDesign
    /\ resolved = NoResolved
    /\ content = <<>>
    /\ changes = <<>>
    /\ issues = <<>>
    /\ loc_lines = <<>>
    /\ pc = "key"

\* parsed = parse_section_key(key); design = parse_notation(parsed["notation"],
\* parsed["ship_type"]) when the key parses
ParseSectionKey ==
    /\ pc = "key"
    /\ resolved' = parse_section_key(vanilla_data,
                       SectionKey(argv.ship_type, argv.slot, argv.tier, argv.notation))
    /\ design' = IF resolved'.ok
                 THEN parse_notation(resolved'.notation, resolved'.ship_type)
                 ELSE NoDesign
    /\ pc' = "parsed"
    /\ UNCHANGED <<vanilla_data, argv, content, changes, issues, loc_lines>>

SpecKey == InitKey /\ [][ParseSectionKey]_vars

(***************************************************************************)
(* get_locator_mapping on its own: one or two needed locators against      *)
(* every set of valid locators an entity of the hierarchy can have.  The    *)
(* needed locators include a name no size key matches (turret_01) and names *)
(* that may be valid already.                                              *)
(***************************************************************************)
InitMapping ==
    /\ vanilla_data = VanillaData
    /\ argv \in
          [needed_locators :
              {s \in SUBSET {XlGun("02"), LargeGun("03"), SmallGun("03"),
                             W2("turret", "01"), XlGun("01"), LargeGun("01")} :
                  Cardinality(s) \in {1, 2}},
           valid_locators :
              SUBSET {LargeGun("01"), LargeGun("02"), MediumGun("01"), MediumGun("02"),
                      W4("planet", "killer", "gun", "01"), W1("root"), SmallGun("01"),
                      SmallGun("02"), W2("weapon", "01"), XlGun("01")}]
    /\ design = NoDesign
    /\ resolved = NoResolved
    /\ content = <<>>
    /\ changes = <<>>
    /\ issues = <<>>
    /\ loc_lines = <<>>
    /\ pc = "map"

\* locator_mapping = get_locator_mapping(invalid_locators, valid_locators):
\* resolved is the mapping returned, empty when there is no valid locator
GetLocatorMapping ==
    /\ pc = "map"
    /\ resolved' =
          [l \in (IF argv.valid_locators = {} THEN {}
                  ELSE argv.needed_locators \ argv.valid_locators) |->
              get_locator_mapping(l, argv.valid_locators)]
    /\ pc' = "mapped"
    /\ UNCHANGED <<vanilla_data, argv, design, content, changes, issues, loc_lines>>

SpecMapping == InitMapping /\ [][GetLocatorMapping]_vars

(***************************************************************************)
(* design followed by the validator on the section file it has written.    *)
(***************************************************************************)
\* validate_file over the records cmd_design has appended
ValidateGenerated ==
    /\ pc = "done"
    /\ issues' = validate_file(content, vanilla_data)
    /\ pc' = "validated"
    /\ UNCHANGED <<vanilla_data, argv, design, resolved, content, changes, loc_lines>>

NextGenerate == cmd_design \/ ValidateGenerated

SpecGenerate == InitDesign /\ [][NextGenerate]_vars

(***************************************************************************)
(* Claims about parse_notation (specification SpecCalc).                   *)
(***************************************************************************)
T1UL1 == <<"T", "1", "U", "L", "1">>
T2X1UL2 == <<"T", "2", "X", "1", "U", "L", "2">>

\* the aux cost the claim's table gives the ship types drawn here
ClaimedAuxCost(ship_type) ==
    IF ship_type = <<"battleship">> THEN 8
    ELSE IF ship_type = <<"corvette">> THEN 1
    ELSE 4

\* C4: for every notation and ship type, totalPoints is the sum of the weapon
\* costs (S=1, PD=1, M=2, G=2, L=4, HB=4, X=8, T=16, W=0) times the parsed
\* counts, plus 4 per large utility, 1 per small utility and the ship type's
\* aux cost (default 4) per aux slot; parse("T1UL1", battleship) is {T:1},
\* largeUtility 1, smallUtility 0, aux 0, 20 points.
C4_TotalPoints ==
    pc = "done" =>
        /\ design.total_points =
               1 * Get(design.weapons, "S") + 1 * Get(design.weapons, "PD")
             + 2 * Get(design.weapons, "M") + 2 * Get(design.weapons, "G")
             + 4 * Get(design.weapons, "L") + 4 * Get(design.weapons, "HB")
             + 8 * Get(design.weapons, "X") + 16 * Get(design.weapons, "T")
             + 0 * Get(design.weapons, "W")
             + 4 * design.large_utility + 1 * design.small_utility
             + design.aux * ClaimedAuxCost(argv.ship_type)
        /\ (argv.notation = T1UL1 /\ argv.ship_type = <<"battleship">>) =>
               /\ design.weapons = [k \in {"T"} |-> 1]
               /\ design.large_utility = 1
               /\ design.small_utility = 0
               /\ design.aux = 0
               /\ design.total_points = 20

\* a parsed design with weapons, utilities and aux slots on a ship type that
\* takes the default aux cost
C4_Witness ==
    /\ pc = "done"
    /\ argv.ship_type = <<"crisis", "_", "corvette">>
    /\ design.aux = 2
    /\ design.large_utility = 1
    /\ Get(design.weapons, "HB") = 1
    /\ design.total_points = 16

\* the five contiguous buckets of the claim, the last one open above
ClaimedBucket(points) ==
    IF points <= 24 THEN "common"
    ELSE IF points <= 32 THEN "advanced"
    ELSE IF points <= 40 THEN "pro"
    ELSE IF points <= 52 THEN "ultra"
    ELSE "ultimate"

\* C5: the tier is a function of totalPoints alone, the unique bucket holding
\* it (common 0-24, advanced 25-32, pro 33-40, ultra 41-52, ultimate 53+), so
\* it never decreases as totalPoints grows; parse("T2X1UL2", battleship) has
\* 48 points and tier ultra.
C5_TierIsBucket ==
    pc = "done" =>
        /\ design.tier = ClaimedBucket(design.total_points)
        /\ (argv.notation = T2X1UL2 /\ argv.ship_type = <<"battleship">>) =>
               (design.total_points = 48 /\ design.tier = "ultra")

\* C6: the top tier has no ceiling: every design of at least 53 points,
\* however large, is tier ultimate.
C6_TopTierUnbounded ==
    (pc = "done" /\ design.total_points >= 53) => design.tier = "ultimate"

\* the notation read token by token, a utility token (UL<n>, US<n>, AUX<n>)
\* taking precedence over the weapon token inside it
UtilityCodes == << <<"U", "L">>, <<"U", "S">>, <<"A", "U", "X">> >>

UtilityAt(s, i) ==
    \E c \in 1..Len(UtilityCodes) :
        StartsAt(s, i, UtilityCodes[c]) /\ DigitRun(s, i + Len(UtilityCodes[c])) > 0

UtilityEnd(s, i) ==
    LET c == CHOOSE d \in 1..Len(UtilityCodes) :
                 StartsAt(s, i, UtilityCodes[d]) /\ DigitRun(s, i + Len(UtilityCodes[d])) > 0
    IN  i + Len(UtilityCodes[c]) + DigitRun(s, i + Len(UtilityCodes[c]))

RECURSIVE WeaponTokens(_, _)
WeaponTokens(s, i) ==
    IF i > Len(s) THEN <<>>
    ELSE IF UtilityAt(s, i) THEN WeaponTokens(s, UtilityEnd(s, i))
    ELSE IF CodeAt(s, i) = 0 THEN WeaponTokens(s, i + 1)
    ELSE LET code == WeaponCodes[CodeAt(s, i)]
         IN  << <<KindOf(code), MatchCount(s, i, code)>> >>
                 \o WeaponTokens(s, i + Len(code) + DigitRun(s, i + Len(code)))

\* C7: no UL<n>, US<n> or AUX<n> token of a notation is read as an L, S or X
\* weapon: the weapon counts are exactly those of the notation's weapon tokens
\* that are not part of a utility token.
C7_UtilityNeverWeapon ==
    pc = "done" =>
        \A k \in WeaponKinds :
            Get(design.weapons, k) = Get(WeaponsDict(WeaponTokens(argv.notation, 1)), k)

(***************************************************************************)
(* Claims about the resolver (specification SpecResolve).                  *)
(***************************************************************************)
\* the candidate entities of a (ship type, slot) pair, read off the hierarchy
Candidates(data, ship_type, slot) ==
    {data.ship_types[i].slots[j].entities[k].name :
        <<i, j, k>> \in
            {t \in (1..Len(data.ship_types)) \X (1..3) \X (1..3) :
                /\ t[2] <= Len(data.ship_types[t[1]].slots)
                /\ t[3] <= Len(data.ship_types[t[1]].slots[t[2]].entities)
                /\ data.ship_types[t[1]].name = ship_type
                /\ data.ship_types[t[1]].slots[t[2]].name = slot}}

\* C8: find_entity_for_design returns a null entity if and only if the
\* (shipType, slot) pair has no candidate entity; with a candidate it returns
\* a member of the pair's candidate set, for every weapon profile.
C8_NullOnlyWithoutCandidates ==
    pc = "resolved" =>
        LET cands == Candidates(vanilla_data, argv.ship_type, argv.slot)
        IN  /\ (resolved.entity = None) <=> (cands = {})
            /\ cands # {} => resolved.entity \in cands

\* a Titan weapon asked of a slot whose only entity has a medium gun: no
\* entity supports the profile and the entity is still returned
C8_Witness ==
    /\ pc = "resolved"
    /\ argv.ship_type = W1("battleship") /\ argv.slot = W1("stern")
    /\ Get(design.weapons, "T") = 1
    /\ resolved.entity = BattleshipSternGuns.name

\* a universal locator as the claims list them
ClaimedUniversal(loc) ==
    \/ loc \in {W2("turret", "01"), W2("weapon", "01"), W2("weapon", "02"),
                W1("root"), W1("core")}
    \/ Contains(loc, <<"turret", "_">>)
    \/ Contains(loc, W2("planet", "killer"))

\* the positions of the candidates that expose a universal locator
UniversalEntities(entities) ==
    {i \in 1..Len(entities) :
        \E j \in 1..Len(entities[i].locators) : ClaimedUniversal(entities[i].locators[j])}

\* the first universal locator of a locator list that has one
FirstUniversal(locators) ==
    locators[CHOOSE j \in 1..Len(locators) :
                /\ ClaimedUniversal(locators[j])
                /\ \A k \in 1..(j - 1) : ~ClaimedUniversal(locators[k])]

\* the least number of a non-empty set of numbers
Least(S) == CHOOSE i \in S : \A k \in S : i <= k

\* C17: whenever a candidate of the (shipType, slot) pair exposes a universal
\* locator, find_entity_for_design returns the first such candidate in
\* hierarchy order, whatever the other candidates score, and maps each of the
\* six categories to the one-element list of its first universal locator
C17_UniversalShortcut ==
    (pc = "resolved"
        /\ UniversalEntities(EntitiesOf(vanilla_data, argv.ship_type, argv.slot)) # {})
    => /\ resolved.entity =
              EntitiesOf(vanilla_data, argv.ship_type, argv.slot)[
                  Least(UniversalEntities(
                            EntitiesOf(vanilla_data, argv.ship_type, argv.slot)))].name
       /\ \A c \in Categories :
              resolved.locator_map[c] =
                  <<FirstUniversal(
                        EntitiesOf(vanilla_data, argv.ship_type, argv.slot)[
                            Least(UniversalEntities(
                                      EntitiesOf(vanilla_data, argv.ship_type,
                                                 argv.slot)))].locators)>>

\* three small guns asked of the corvette mid slot: the first candidate has
\* two small gun locators, the second one is returned for its root locator
C17_Witness ==
    /\ pc = "resolved"
    /\ argv.ship_type = W1("corvette") /\ argv.slot = W1("mid")
    /\ Get(design.weapons, "S") = 3
    /\ resolved.entity = W4("corvette", "mid", "M1", "entity")
    /\ resolved.locator_map["small_gun"] = <<W1("root")>>

\* the candidate has a non-zero number of locators in the category of every
\* requested weapon kind
FullySupportable(weapons, locators) ==
    \A w \in DOMAIN weapons : Len(CategoryLocators(locators, weapon_to_loc(w))) > 0

\* the positions of the fully supportable candidates
Supportable(entities, weapons) ==
    {i \in 1..Len(entities) : FullySupportable(weapons, entities[i].locators)}

\* the score of the claim: per requested kind 10 * the requested count if the
\* category has at least that many locators, otherwise the available count
RECURSIVE ClaimedScore(_, _, _)
ClaimedScore(weapons, kinds, locators) ==
    IF kinds = {} THEN 0
    ELSE LET w == CHOOSE x \in kinds : TRUE
         IN  (IF Len(CategoryLocators(locators, weapon_to_loc(w))) >= weapons[w]
              THEN 10 * weapons[w]
              ELSE Len(CategoryLocators(locators, weapon_to_loc(w))))
             + ClaimedScore(weapons, kinds \ {w}, locators)

\* candidate i is fully supportable, no fully supportable candidate scores
\* higher and none before it scores as high
BestCoverage(entities, weapons, i) ==
    /\ i \in Supportable(entities, weapons)
    /\ \A k \in Supportable(entities, weapons) :
          /\ ClaimedScore(weapons, DOMAIN weapons, entities[k].locators)
                 <= ClaimedScore(weapons, DOMAIN weapons, entities[i].locators)
          /\ k < i => ClaimedScore(weapons, DOMAIN weapons, entities[k].locators)
                          < ClaimedScore(weapons, DOMAIN weapons, entities[i].locators)

C19_FallbackFirstLocator ==
    (pc = "resolved"
        /\ UniversalEntities(EntitiesOf(vanilla_data, argv.ship_type, argv.slot)) = {}
        /\ Supportable(EntitiesOf(vanilla_data, argv.ship_type, argv.slot),
                       design.weapons) = {})
    => \A i \in 1..Len(EntitiesOf(vanilla_data, argv.ship_type, argv.slot)) :
          (/\ \A k \in 1..Len(EntitiesOf(vanilla_data, argv.ship_type, argv.slot)) :
                 /\ Len(EntitiesOf(vanilla_data, argv.ship_type, argv.slot)[k].locators)
                        <= Len(EntitiesOf(vanilla_data, argv.ship_type,
                                          argv.slot)[i].locators)
                 /\ k < i =>
                        Len(EntitiesOf(vanilla_data, argv.ship_type, argv.slot)[k].locators)
                            < Len(EntitiesOf(vanilla_data, argv.ship_type,
                                             argv.slot)[i].locators)
           /\ EntitiesOf(vanilla_data, argv.ship_type, argv.slot)[i].locators # <<>>)
          => /\ resolved.entity =
                    EntitiesOf(vanilla_data, argv.ship_type, argv.slot)[i].name
             /\ \A c \in Categories :
                    resolved.locator_map[c] =
                        <<EntitiesOf(vanilla_data, argv.ship_type,
                                     argv.slot)[i].locators[1]>>

(***************************************************************************)
(* Claims about generate (specification SpecDesign).                       *)
(***************************************************************************)
Emitted == pc = "done" /\ content # <<>>

LastRecord == content[Len(content)]

\* C1: re-parsing the emitted record (extract_section_data for ship_size and
\* fits_on_slot, parse_section_key and parse_notation on the key's notation
\* for the counts) recovers the ship type, the slot, the weapon counts per
\* kind and the utility and aux counts that parse_notation gave for the
\* original notation.
C1_RoundTrip ==
    Emitted =>
        LET data == extract_section_data(<<LastRecord>>)
            parsed == parse_section_key(vanilla_data, data.key)
            again == parse_notation(parsed.notation, parsed.ship_type)
        IN  /\ data.ship_size = argv.ship_type
            /\ data.slot = argv.slot
            /\ parsed.ok
            /\ parsed.ship_type = argv.ship_type
            /\ parsed.slot = argv.slot
            /\ \A k \in WeaponKinds : Get(again.weapons, k) = Get(design.weapons, k)
            /\ again.large_utility = design.large_utility
            /\ again.small_utility = design.small_utility
            /\ again.aux = design.aux

\* the component_slot blocks of the record that carry the template of kind w
UnitsOf(record, w) ==
    {i \in 1..Len(record.component_slots) : record.component_slots[i].template = TEMPLATES(w)}

\* C9: when N units of a weapon kind are requested and the locator list of
\* the kind's category has M locators, 0 < M < N, unit i (0-based) gets the
\* locator at index i mod M: no unit is dropped.
C9_LocatorCycling ==
    Emitted =>
        \A w \in DOMAIN design.weapons :
            LET N == design.weapons[w]
                locs == LocatorsFor(resolved.locator_map, weapon_to_loc(w))
                M == Len(locs)
            IN  (0 < M /\ M < N) =>
                    /\ Cardinality(UnitsOf(LastRecord, w)) = N
                    /\ \A i \in 0..(N - 1) :
                          \E u \in UnitsOf(LastRecord, w) :
                              /\ LastRecord.component_slots[u].name =
                                     weapon_to_slot_name(w) \o <<"_", Fmt02(i + 1)>>
                              /\ LastRecord.component_slots[u].locatorname =
                                     locs[(i % M) + 1]

\* three small guns on the battleship bow entity that has two small gun
\* locators: the third unit is back on the first locator
C9_Witness ==
    /\ Emitted
    /\ argv.notation = <<"S", "3">>
    /\ LastRecord.entity = BattleshipBowMixed.name
    /\ Len(LastRecord.component_slots) = 3
    /\ LastRecord.component_slots[2].locatorname = SmallGun("02")
    /\ LastRecord.component_slots[3].locatorname = SmallGun("01")

\* the names of the component_slot blocks the claim expects: the kinds in the
\* order W, T, X, HB, L, M, G, S, PD (position k of it onwards), each kind
\* numbered from 01 without gaps
RECURSIVE ClaimedSlotNames(_, _)
ClaimedSlotNames(k, weapons) ==
    IF k > 9 THEN <<>>
    ELSE [u \in 1..Get(weapons, <<"W", "T", "X", "HB", "L", "M", "G", "S", "PD">>[k]) |->
             weapon_to_slot_name(<<"W", "T", "X", "HB", "L", "M", "G", "S", "PD">>[k])
                 \o <<"_", Fmt02(u)>>]
         \o ClaimedSlotNames(k + 1, weapons)

\* a utility field is in the record if and only if its count is not zero
UtilityFieldAsCounted(record, name, count) ==
    /\ (count > 0) <=> \E n \in 1..Len(record.utility_slots) :
                          record.utility_slots[n].name = name
    /\ \A n \in 1..Len(record.utility_slots) :
          record.utility_slots[n].name = name => record.utility_slots[n].count = count

\* C20: the emitted record has exactly one component_slot block per requested
\* weapon unit, grouped by kind in the order W, T, X, HB, L, M, G, S, PD and
\* named <SLOTNAME>_01, <SLOTNAME>_02, ... within a kind; the utility and aux
\* fields are emitted only when their count is not zero
C20_EmitterOrder ==
    Emitted =>
        /\ [j \in 1..Len(LastRecord.component_slots) |-> LastRecord.component_slots[j].name]
               = ClaimedSlotNames(1, design.weapons)
        /\ UtilityFieldAsCounted(LastRecord, "small_utility_slots", design.small_utility)
        /\ UtilityFieldAsCounted(LastRecord, "large_utility_slots", design.large_utility)
        /\ UtilityFieldAsCounted(LastRecord, "aux_utility_slots", design.aux)

\* the notation S3T1: the Titan block comes first, then the three small guns,
\* and no utility field is emitted
C20_Witness ==
    /\ Emitted
    /\ argv.notation = <<"S", "3", "T", "1">>
    /\ Len(LastRecord.component_slots) = 4
    /\ LastRecord.component_slots[1].name = <<"TITANIC", "_", "01">>
    /\ LastRecord.component_slots[4].name = <<"SMALL", "_", "GUN", "_", "03">>
    /\ LastRecord.utility_slots = <<>>

\* C28: the TIER token of the key PBSS_<SHIPTYPE>_<SLOT>_<TIER>_<NOTATION>
\* that generate builds equals the upper-cased tier parse_notation derives
\* from the key's own NOTATION token (the input in upper case) and the ship
\* type, so the tier pass leaves a freshly generated record as it is.
C28_GeneratedTierAgrees ==
    Emitted =>
        /\ LastRecord.key =
               <<"PBSS", "_">> \o Upper(argv.ship_type) \o <<"_">> \o Upper(argv.slot)
                   \o <<"_", UpperChunk(parse_notation(Upper(argv.notation),
                                                       argv.ship_type).tier), "_">>
                   \o Upper(argv.notation)
        /\ fix_section_tiers(content, vanilla_data).changes = <<>>

(***************************************************************************)
(* Claims about the repairer (specification SpecRepair).                   *)
(***************************************************************************)
\* C2: applying the repair pipeline of process_file to its own output changes
\* nothing: the second run returns the same text and an empty change list.
C2_RepairIdempotent ==
    [][pc = "processed" => (content' = content /\ changes' = <<>>)]_vars

\* the ship types of the reference hierarchy
HierarchyShipTypes(data) == {data.ship_types[i].name : i \in 1..Len(data.ship_types)}

\* key is PBSS_<SHIPTYPE>_<SLOT>_<TIER>_<NOTATION> for the ship type and tier
HasKeyForm(key, ship_type, tier) ==
    LET prefix == <<"PBSS", "_">> \o Upper(ship_type) \o <<"_">>
        n == Len(prefix)
    IN  /\ Len(key) >= n + 4
        /\ SubSeq(key, 1, n) = prefix
        /\ key[n + 1] # "_"
        /\ key[n + 2] = "_"
        /\ key[n + 3] = tier
        /\ key[n + 4] = "_"

\* the NOTATION of a key of that form
KeyNotation(key, ship_type) == SubSeq(key, Len(Upper(ship_type)) + 8, Len(key))

\* C3: after fix_section_tiers has run over a file, every record key of the
\* form PBSS_<SHIPTYPE>_<SLOT>_<TIER>_<NOTATION> whose ship type is a ship
\* type of the reference hierarchy has its TIER token equal to the upper-cased
\* tier that parse_notation derives from NOTATION and the ship type.
C3_TierAgreesAfterRepair ==
    pc = "tiers" =>
        \A i \in 1..Len(content) :
            \A ship_type \in HierarchyShipTypes(vanilla_data) :
                \A tier \in {"COMMON", "ADVANCED", "PRO", "ULTRA", "ULTIMATE"} :
                    HasKeyForm(content[i].key, ship_type, tier) =>
                        tier = UpperChunk(parse_notation(
                                   KeyNotation(content[i].key, ship_type), ship_type).tier)

\* the entity is listed somewhere in the hierarchy
InHierarchy(data, entity) ==
    \E i \in 1..Len(data.ship_types) :
        \E j \in 1..Len(data.ship_types[i].slots) :
            entity \in Candidates(data, data.ship_types[i].name,
                                  data.ship_types[i].slots[j].name)

\* C10: for every record whose entity exists in the hierarchy only under
\* other (shipType, slot) pairs than the one the record declares, if the
\* declared pair has any candidate entity then after fix_section the record's
\* entity is a member of the declared pair's candidate set.
C10_WrongContextRepaired ==
    [][(pc = "repair" /\ pc' = "sections") =>
          \A i \in 1..Len(content) :
              LET declared == Candidates(vanilla_data, content[i].ship_size,
                                         content[i].fits_on_slot)
              IN  (/\ InHierarchy(vanilla_data, content[i].entity)
                   /\ content[i].entity \notin declared
                   /\ declared # {})
                  => content'[i].entity \in declared]_vars

\* the NOTATION of a key: what follows its first tier token, and the whole
\* key when it has no tier token
NotationToken(key) ==
    IF TierIndex(Split(key)) = 0 THEN key
    ELSE Join(SubSeq(Split(key), TierIndex(Split(key)) + 1, Len(Split(key))))

\* the requested content of a record: the notation of its key, the templates
\* of its component_slot blocks in order, and its utility slot fields
Requested(record) ==
    <<NotationToken(record.key),
      [j \in 1..Len(record.component_slots) |-> record.component_slots[j].template],
      record.utility_slots>>

\* C16: no repair step (the tier pass, the per-record pass, process_file on a
\* file or on its own output) alters the notation token of a record's key,
\* the number and the templates of its component_slot blocks or its utility
\* slot fields
C16_RequestedContentKept ==
    [][pc' \in {"tiers", "sections", "processed", "processed again"} =>
          /\ Len(content') = Len(content)
          /\ \A i \in 1..Len(content) : Requested(content'[i]) = Requested(content[i])]_vars

\* process_file has changed the tier token, the entity and the modifiers of
\* the first record of a file whose records have component_slot blocks and a
\* utility field
C16_Witness ==
    /\ pc = "processed"
    /\ \E n \in 1..Len(changes) : changes[n][1] = "tier"
    /\ \E n \in 1..Len(changes) : changes[n][1] = "wrong_context"
    /\ \E n \in 1..Len(changes) : changes[n][1] = "modifiers"
    /\ content[1].key = <<"PBSS", "_", "CORVETTE", "_", "MID", "_", "COMMON", "_", "S", "3">>
    /\ content[1].utility_slots # <<>>
    /\ Len(content) = 2
    /\ Len(content[2].component_slots) > 0

\* the entity find_entity_for_design returns for the declared context of a
\* record and the weapons the notation of its key asks for
ResolverEntity(data, record) ==
    find_entity_for_design(data, record.ship_size, record.fits_on_slot,
                           parse_notation(NotationToken(record.key),
                                          record.ship_size).weapons).entity

\* the first candidate of the declared context with the most locators
MostLocatorsCandidate(data, record) ==
    LET entities == EntitiesOf(data, record.ship_size, record.fits_on_slot)
        count(i) == Cardinality(Range(entities[i].locators))
    IN  entities[CHOOSE i \in 1..Len(entities) :
                     /\ \A j \in 1..Len(entities) : count(j) <= count(i)
                     /\ \A j \in 1..(i - 1) : count(j) < count(i)].name

\* the record is the one a wrong-context replacement speaks of
WrongContextRecord(data, record, change) ==
    /\ change[1] = "wrong_context"
    /\ record.entity = change[2]
    /\ EntitiesOf(data, record.ship_size, record.fits_on_slot) # <<>>
    /\ ~InSeq(record.entity,
              Names(EntitiesOf(data, record.ship_size, record.fits_on_slot)))

ValidLocatorSet(data, entity) ==
    {loc \in UNION {Range(EntityAt(data, p).locators) : p \in Places(data)} :
        \E p \in Places(data) :
            EntityAt(data, p).name = entity /\ InSeq(loc, EntityAt(data, p).locators)}

\* C22: after fix_section has returned, a record whose final entity has a
\* non-empty valid-locator set in the hierarchy has every locatorname in that
\* set: the locators are judged against the entity as corrected.
C22_LocatorsOfFinalEntity ==
    [][(pc = "repair" /\ pc' \in {"sections", "processed"}) =>
          \A i \in 1..Len(content') :
              ValidLocatorSet(vanilla_data, content'[i].entity) # {} =>
                  \A j \in 1..Len(content'[i].component_slots) :
                      content'[i].component_slots[j].locatorname
                          \in ValidLocatorSet(vanilla_data, content'[i].entity)]_vars

\* the entity of a record was replaced for its context and a locator that
\* the former entity has was then mapped to one of the new entity
C22_Witness ==
    /\ pc = "sections"
    /\ Len(changes) = 2
    /\ changes[1] = <<"wrong_context", BattleshipBowGuns.name, CorvetteMidGuns.name>>
    /\ changes[2] = <<"locator", LargeGun("01"), SmallGun("01")>>
    /\ content[1].entity = CorvetteMidGuns.name
    /\ content[1].component_slots[1].locatorname = SmallGun("01")

\* the number of lines of a modifier block that assign the modifier
Assignments(lines, modifier) == Cardinality({n \in 1..Len(lines) : lines[n] = modifier})

\* C24: after fix_modifiers no line of a record assigns a modifier that is a
\* key of the invalid-to-valid map; every assignment of a key with a value has
\* become an assignment of that value, and every assignment of a key without
\* a value is gone, whatever its place among the lines of the record.
C24_ModifiersRepaired ==
    [][(pc = "repair" /\ pc' = "processed") =>
          \A i \in 1..Len(content) :
              \A r \in Range(vanilla_data.modifiers) :
                  /\ Assignments(content'[i].modifiers, r[1]) = 0
                  /\ r[2] # None =>
                        Assignments(content'[i].modifiers, r[2])
                            = Assignments(content[i].modifiers, r[2])
                                  + Assignments(content[i].modifiers, r[1])]_vars

\* C29: after process_file has run fix_slot_names, every record whose ship
\* type has a slot in the hierarchy declares a slot of that ship type; a slot
\* that was valid for the ship type is left as it was; and every entity the
\* per-record pass puts in is a candidate of the record's ship type and its
\* normalized slot.
C29_SlotsNormalized ==
    [][(pc = "repair" /\ pc' = "processed") =>
          /\ \A i \in 1..Len(content) :
                /\ content'[i].ship_size = content[i].ship_size
                /\ Names(SlotsOf(vanilla_data, content[i].ship_size)) # <<>>
                      => InSeq(content'[i].fits_on_slot,
                               Names(SlotsOf(vanilla_data, content[i].ship_size)))
                /\ InSeq(content[i].fits_on_slot,
                         Names(SlotsOf(vanilla_data, content[i].ship_size)))
                      => content'[i].fits_on_slot = content[i].fits_on_slot
          /\ \A i \in 1..Len(content) :
                content'[i].entity # content[i].entity
                    => content'[i].entity \in
                           Candidates(vanilla_data, content'[i].ship_size,
                                      content'[i].fits_on_slot)]_vars

(***************************************************************************)
(* Claims about the validator (specification SpecRepair).                  *)
(***************************************************************************)
\* C11: after validate_file, an issue of kind tier_mismatch is reported for
\* every record whose key's tier token differs from the tier derived from the
\* key's notation and ship type.
C11_TierMismatchReported ==
    pc = "validated" =>
        \A i \in 1..Len(content) :
            \A ship_type \in HierarchyShipTypes(vanilla_data) :
                \A tier \in {"COMMON", "ADVANCED", "PRO", "ULTRA", "ULTIMATE"} :
                    (/\ HasKeyForm(content[i].key, ship_type, tier)
                     /\ tier # UpperChunk(parse_notation(
                                   KeyNotation(content[i].key, ship_type), ship_type).tier))
                    => \E n \in 1..Len(issues) : issues[n][1] = "tier_mismatch"

\* C25: after validate_file, an issue of kind unknown_entity is reported for
\* every record whose entity is listed nowhere in the hierarchy, whatever the
\* ship type and the slot of the record are.
C25_UnknownEntityReported ==
    pc = "validated" =>
        \A i \in 1..Len(content) :
            ~InHierarchy(vanilla_data, content[i].entity)
                => \E n \in 1..Len(issues) :
                      issues[n] = <<"unknown_entity", content[i].entity>>

\* C26: after validate_file, an issue of kind invalid_modifier is reported
\* for every modifier assignment of a record whose modifier is a key of the
\* invalid-to-valid modifier map.
C26_InvalidModifierReported ==
    pc = "validated" =>
        \A i \in 1..Len(content) : \A j \in 1..Len(content[i].modifiers) :
            content[i].modifiers[j] \in {r[1] : r \in Range(vanilla_data.modifiers)}
                => \E n \in 1..Len(issues) :
                      issues[n] = <<"invalid_modifier", content[i].modifiers[j]>>


(***************************************************************************)
(* Claims about the audits and the removals (specification SpecAudit).     *)
(***************************************************************************)
\* the kinds a size class forbids, as the claim lists them
ClaimedForbidden(size_class) ==
    IF size_class = 1 THEN {"X", "T"} ELSE IF size_class = 2 THEN {"T"} ELSE {}

\* the key parses and its notation requests a count above zero of a kind
\* forbidden for the size class of its ship type
RequestsForbidden(parsed) ==
    /\ parsed.ok
    /\ \E w \in ClaimedForbidden(SHIP_SIZE_CLASS(parsed.ship_type)) :
          Get(parse_notation(parsed.notation, parsed.ship_type).weapons, w) > 0

\* C12: the size-class audit flags a record if and only if its key parses and
\* its notation requests a count greater than zero of a weapon kind forbidden
\* for the size class of its ship type (class 1: X and T, class 2: T, class 3
\* and every unlisted ship type: nothing)
C12_OversizedFlagged ==
    pc = "audited size" =>
        \A i \in 1..Len(content) :
            (\E n \in 1..Len(issues) : issues[n].key = content[i].key)
                <=> RequestsForbidden(parse_section_key(vanilla_data, content[i].key))

\* a file of a flagged destroyer with a T and an unflagged destroyer with an X
C12_Witness ==
    /\ pc = "audited size"
    /\ Len(content) = 2
    /\ content[1].key = <<"PBSS", "_", "DESTROYER", "_", "BOW", "_", "COMMON", "_", "T", "1">>
    /\ content[2].key = <<"PBSS", "_", "DESTROYER", "_", "BOW", "_", "COMMON", "_", "X", "1">>
    /\ Len(issues) = 1
    /\ issues[1].key = content[1].key
    /\ issues[1].violations = {"T"}


\* the key has the form PBSS_<SHIPTYPE>_<SLOT>_<TIER>_<NOTATION> for a ship
\* type with base points, and the total points of NOTATION divided by the base
\* points are at least the threshold (threshold_x10 tenths)
RatioMeetsThreshold(key, data, threshold_x10) ==
    \E i \in 1..Len(data.ship_base_points) :
        \E tier \in {"COMMON", "ADVANCED", "PRO", "ULTRA", "ULTIMATE"} :
            /\ HasKeyForm(key, data.ship_base_points[i][1], tier)
            /\ parse_notation(KeyNotation(key, data.ship_base_points[i][1]),
                              data.ship_base_points[i][1]).total_points * 10
                   >= threshold_x10 * data.ship_base_points[i][2]

EntryKey(line) == Leading(line, {":"})

\* C14: after --remove-above or --remove-oversized no display-text entry is
\* left whose key has the identifier of a removed record as its prefix
C14_NoEntryWithRemovedPrefix ==
    pc \in {"removed", "removed oversized"} =>
        \A n \in 1..Len(issues) :
            \A i \in 1..Len(loc_lines) :
                ~StartsAt(EntryKey(loc_lines[i]), 1, issues[n].key)

\* C14 as the code has it: a removal deletes exactly the display-text entries
\* whose key is the identifier of a removed record; every other entry, one
\* whose key only begins with such an identifier included, stays in its place
C14_EntriesOfRemovedKeysDeleted ==
    [][(pc = "audit" /\ pc' \in {"removed", "removed oversized"}) =>
          loc_lines' = SelectSeq2(loc_lines,
                                  {l \in Range(loc_lines) :
                                      \A n \in 1..Len(issues') :
                                          EntryKey(l) # issues'[n].key})]_vars

\* the corvette record with an X is removed for its size: its entry is gone,
\* its description entry and the entry of the kept record X1X0 are left
C14_Witness ==
    /\ pc = "removed oversized"
    /\ Len(issues) = 1
    /\ issues[1].key = <<"PBSS", "_", "CORVETTE", "_", "MID", "_", "COMMON", "_", "X", "1">>
    /\ ~InSeq(issues[1].key \o <<":", "0">>, loc_lines)
    /\ InSeq(issues[1].key \o <<"_", "DESC", ":", "0">>, loc_lines)
    /\ InSeq(issues[1].key \o <<"X", "0", ":", "0">>, loc_lines)


(***************************************************************************)
(* Claims about parse_section_key (specification SpecKey).                 *)
(***************************************************************************)
\* C15: for every key PBSS_<SHIPTYPE>_<SLOT>_<TIER>_<NOTATION>, SHIPTYPE with
\* or without underscores, parsing recovers TIER as the tier, SLOT as the slot
\* and exactly SHIPTYPE as the ship type: the slot token is never made part of
\* the recovered ship type
C15_KeyParts ==
    pc = "parsed" =>
        /\ resolved.ok
        /\ resolved.tier = <<UpperChunk(argv.tier)>>
        /\ resolved.slot = argv.slot
        /\ resolved.ship_type = argv.ship_type


(***************************************************************************)
(* Claims about get_locator_mapping (specification SpecMapping).           *)
(***************************************************************************)
\* the place of a word among the words of the valid locator names, in the
\* order of their characters
WordRank(c) ==
    CASE c = "01" -> 1 [] c = "02" -> 2 [] c = "large" -> 3 [] c = "medium" -> 4
      [] c = "planet" -> 5 [] c = "root" -> 6 [] c = "small" -> 7 [] c = "weapon" -> 8
      [] c = "xl" -> 9 [] OTHER -> 0

\* the lexicographically first of a non-empty set of valid locator names:
\* they differ in their first word or else in their number
FirstValid(valid) ==
    CHOOSE v \in valid :
        \A u \in valid \ {v} :
            \/ WordRank(v[1]) < WordRank(u[1])
            \/ v[1] = u[1] /\ WordRank(v[Len(v)]) < WordRank(u[Len(u)])

\* some valid locator holds the keyword
SomeValidHolds(valid, keyword) == \E v \in valid : Contains(v, keyword)

\* the needed locator matches no size key, or none of the preferences of the
\* first size key it matches is held by a valid locator
NoCategoryMatch(needed, valid) ==
    LET keys == {k \in 1..Len(size_map) : Contains(needed, size_map[k][1])}
    IN  \/ keys = {}
        \/ \A n \in 1..3 :
              ~SomeValidHolds(valid, size_map[CHOOSE k \in keys : \A j \in keys : k <= j][2][n])

\* C23: get_locator_mapping maps an invalid locator that holds xl_gun to a
\* valid locator holding xl_gun if there is one, otherwise to one holding
\* large_gun; it maps an invalid locator that matches no size key, or whose
\* preferred keywords no valid locator holds, to the lexicographically first
\* valid locator; it never maps a locator that is valid already.
C23_SimilarityOrder ==
    pc = "mapped" =>
        /\ DOMAIN resolved \cap argv.valid_locators = {}
        /\ \A l \in DOMAIN resolved :
              /\ resolved[l] \in argv.valid_locators
              /\ Contains(l, W2("xl", "gun")) =>
                    IF SomeValidHolds(argv.valid_locators, W2("xl", "gun"))
                    THEN Contains(resolved[l], W2("xl", "gun"))
                    ELSE SomeValidHolds(argv.valid_locators, W2("large", "gun"))
                            => Contains(resolved[l], W2("large", "gun"))
              /\ NoCategoryMatch(l, argv.valid_locators)
                    => resolved[l] = FirstValid(argv.valid_locators)


(***************************************************************************)
(* Claims about generated records and the validator (specification         *)
(* SpecGenerate).                                                          *)
(***************************************************************************)
\* C27: a record generate emits is valid against the hierarchy it was made
\* from: its entity is a candidate of its ship type and slot, every
\* locatorname is a locator of that entity (the literal root when the entity
\* has no locators, never a name made up from a prefix and a number), and the
\* validator reports no wrong_entity_context, unknown_entity or
\* invalid_locator issue for it.
C27_GeneratedRecordValid ==
    (pc \in {"done", "validated"} /\ content # <<>>) =>
        /\ LastRecord.ship_size = argv.ship_type
        /\ LastRecord.fits_on_slot = argv.slot
        /\ LastRecord.entity \in Candidates(vanilla_data, argv.ship_type, argv.slot)
        /\ \A j \in 1..Len(LastRecord.component_slots) :
              IF ValidLocatorSet(vanilla_data, LastRecord.entity) = {}
              THEN LastRecord.component_slots[j].locatorname = W1("root")
              ELSE LastRecord.component_slots[j].locatorname
                       \in ValidLocatorSet(vanilla_data, LastRecord.entity)
        /\ pc = "validated" =>
              \A n \in 1..Len(issues) :
                  issues[n][1] \notin {"wrong_entity_context", "unknown_entity",
                                       "invalid_locator"}

\* a large gun on the battleship stern, whose only entity has one medium
\* locator: the fallback entity is used and the validator has passed it
C27_Witness ==
    /\ pc = "validated"
    /\ content # <<>>
    /\ argv.ship_type = W1("battleship")
    /\ argv.slot = W1("stern")
    /\ Get(design.weapons, "L") = 1
    /\ LastRecord.entity = BattleshipSternGuns.name
    /\ LastRecord.component_slots[1].locatorname = MediumGun("01")


(***************************************************************************)
(* Claims about weapon kinds that share a locator category (specification  *)
(* SpecShared).                                                            *)
(***************************************************************************)
\* the pairs of weapon kinds whose locators come from one category
SharedKinds == { <<"S", "PD">>, <<"M", "G">>, <<"X", "T">> }

\* the locatornames of unit i (1-based) of a weapon kind in a record
LocatorOfUnit(record, w, i) ==
    {record.component_slots[u].locatorname :
        u \in {v \in UnitsOf(record, w) :
                  record.component_slots[v].name =
                      weapon_to_slot_name(w) \o <<"_", Fmt02(i)>>}}

\* the entities of the context, in order, that have at least the requested
\* count of locators for every kind, each kind counted on its own
FullyCovering(entities, weapons) ==
    {k \in 1..Len(entities) :
        \A w \in DOMAIN weapons :
            Len(CategoryLocators(entities[k].locators, weapon_to_loc(w))) >= weapons[w]}

\* C30: locators are assigned per weapon kind, not per category: two kinds
\* that share a category (S and PD, M and G, X and T) each index the
\* category's locator list from 0, so unit i of the one and unit i of the
\* other get the same locator, whatever the number of locators the category
\* has; and the resolver takes an entity as covering both kinds in full when
\* the category has at least the larger of the two counts, so that the first
\* such entity of the context is the one resolved.
C30_LocatorsPerKind ==
    Emitted =>
        /\ \A p \in SharedKinds :
              (p[1] \in DOMAIN design.weapons /\ p[2] \in DOMAIN design.weapons) =>
                  LET locs == LocatorsFor(resolved.locator_map, weapon_to_loc(p[1]))
                  IN  \A i \in 1..design.weapons[p[1]] :
                          /\ LocatorOfUnit(LastRecord, p[1], i) # {}
                          /\ i <= design.weapons[p[2]] =>
                                LocatorOfUnit(LastRecord, p[1], i)
                                    = LocatorOfUnit(LastRecord, p[2], i)
                          /\ locs # <<>> =>
                                LocatorOfUnit(LastRecord, p[1], i)
                                    = {locs[((i - 1) % Len(locs)) + 1]}
        /\ LET entities == EntitiesOf(vanilla_data, argv.ship_type, argv.slot)
               full == FullyCovering(entities, design.weapons)
               first == CHOOSE k \in full : \A j \in full : k <= j
           IN  (/\ full # {}
                /\ \A k \in 1..first : \A j \in 1..Len(entities[k].locators) :
                       ~IsUniversal(entities[k].locators[j]))
                   => resolved.entity = entities[first].name

\* three small guns and two point defences on the destroyer bow, whose second
\* entity has five small gun locators: the point defences are on the locators
\* of the first two small guns, and locators 04 and 05 stay free
C30_Witness ==
    /\ Emitted
    /\ argv.ship_type = W1("destroyer")
    /\ argv.slot = W1("bow")
    /\ Get(design.weapons, "S") = 3
    /\ Get(design.weapons, "PD") = 2
    /\ resolved.entity = W4("destroyer", "bow", "M2S5", "entity")
    /\ LocatorOfUnit(LastRecord, "S", 1) = {SmallGun("01")}
    /\ LocatorOfUnit(LastRecord, "PD", 1) = {SmallGun("01")}
    /\ LocatorOfUnit(LastRecord, "S", 2) = {SmallGun("02")}
    /\ LocatorOfUnit(LastRecord, "PD", 2) = {SmallGun("02")}
    /\ \A j \in 1..Len(LastRecord.component_slots) :
           LastRecord.component_slots[j].locatorname
               \notin {SmallGun("04"), SmallGun("05")}

=============================================================================
